---- MODULE Spec2Model ----
(***************************************************************************)
(* SimpleLockup (src/contracts/SimpleLockup.sol): one linear-vesting       *)
(* lockup per contract instance, with cliff, release and revoke.           *)
(*                                                                         *)
(* A transaction is one atomic step.  Each external function is an         *)
(* operator from the world at call entry to the outcome of running its     *)
(* body: the world as written so far and the error raised, if any.         *)
(* Transact turns an outcome into the effect of the transaction: the EVM   *)
(* discards every write of a call that reverts, and a reverted call        *)
(* leaves no trace on the chain, so it is a step that changes nothing and  *)
(* whose error is the err field of the outcome.                            *)
(* The ERC-20 token is an external collaborator: a                         *)
(* transfer debits the sender by the amount and credits the recipient by   *)
(* the amount plus the token's delivery delta (negative for a              *)
(* fee-on-transfer token, 0 for a standard token, positive for a token     *)
(* that credits more than was asked for).                                  *)
(*                                                                         *)
(* Timestamps stay far below 2^64 and amounts far below 2^256, so the      *)
(* uint64 casts and the checked additions never wrap; a checked            *)
(* subtraction that would underflow is a negative result here and is       *)
(* turned into a Panic revert by the caller.                               *)
(***************************************************************************)
EXTENDS Integers, Sequences, FiniteSets, TLC

(* ---------------------------- bounds ---------------------------------- *)
MaxAmount == 3   \* largest amount the owner has approved for the pull
MaxDur    == 2   \* largest short vesting duration offered
MaxTime   == 3   \* last of the early block timestamps
Width     == 8   \* bits of the native word, standing in for the 256 of uint256

(* ------------------------ program constants --------------------------- *)
MAX_VESTING_DURATION == 315360000   \* 10 * 365 days, in seconds

UintMax == 2 ^ Width - 1            \* type(uint256).max at this width

(* ---------------------------- identities ------------------------------ *)
Zero  == "address(0)"
This  == "address(this)"
Owner == "owner"
Alice == "alice"

Bob   == "bob"

Holders == {This, Owner, Alice}    \* accounts of the token
Callers == {Owner, Alice}          \* externally owned accounts
Keys    == {Alice, Bob}            \* beneficiaries of the per-address shape

NOT_ENTERED == "NOT_ENTERED"
ENTERED     == "ENTERED"

NoError == "none"
NoEvent == [name |-> "none"]
NoPending == [op |-> "none"]

VARIABLES
    lockupInfo,   \* the LockupInfo struct
    beneficiary,  \* address public beneficiary (Zero: none)
    owner,        \* Ownable's _owner
    status,       \* ReentrancyGuard flag
    balance,      \* token.balanceOf, per holder
    allowance,    \* token.allowance(owner, this)
    tokenDelta,   \* what a transfer credits beyond the amount asked for
    now,          \* block.timestamp
    paidOut,      \* sum of the amounts pushed to the beneficiary by release
    refundPaid,   \* sum of the amounts pushed to the owner by revoke
    lastOp,       \* the last step that changed the chain
    lastEvent,    \* the event it emitted (NoEvent if none)
    ret,          \* the value returned by the last view call
    pending,      \* the guarded call waiting for its token transfer
    lockups       \* mapping(address => LockupInfo) of the per-address shape

vars == <<lockupInfo, beneficiary, owner, status, balance, allowance,
          tokenDelta, now, paidOut, refundPaid, lastOp, lastEvent, ret,
          pending, lockups>>

(* --------------------------- storage ---------------------------------- *)
\* Zero-initialised storage of the struct.
EmptyLockup ==
    [totalAmount |-> 0, releasedAmount |-> 0, startTime |-> 0,
     cliffDuration |-> 0, vestingDuration |-> 0, revocable |-> FALSE,
     revoked |-> FALSE, vestedAtRevoke |-> 0]

\* Zero-initialised storage of the mapping.
NoLockups == [k \in Keys |-> EmptyLockup]

\* The contract and token state a call reads and writes.
World ==
    [lockupInfo |-> lockupInfo, beneficiary |-> beneficiary,
     owner |-> owner, status |-> status, balance |-> balance,
     allowance |-> allowance,
     paidOut |-> paidOut, refundPaid |-> refundPaid]

\* Outcome of a body that raises e after having written w.
Raise(w, e) == [w |-> w, err |-> e, event |-> NoEvent]

\* Outcome of a body that runs to its end, emitting ev.
Return(w, ev) == [w |-> w, err |-> NoError, event |-> ev]

\* A revert that keeps the writes made before it.
TransactNoRollback(w0, r) == r

\* The effect of a transaction entered in world w0 whose body had outcome r:
\* a revert restores w0.
Transact(w0, r) ==
    LET body == r
    IN  IF body.err # NoError
        THEN [w |-> w0, err |-> body.err, event |-> NoEvent]
        ELSE body

(* ---------------------------- ownership ------------------------------- *)
\* Lets any caller through.
unauthorizedNever(w, sender) == FALSE

\* onlyOwner: the caller is not the owner.
unauthorized(w, sender) == sender # w.owner

\* Ownable.transferOwnership(newOwner)
transferOwnership(w, sender, newOwner) ==
    IF unauthorized(w, sender) THEN Raise(w, "OwnableUnauthorizedAccount")
    ELSE IF newOwner = Zero THEN Raise(w, "OwnableInvalidOwner")
    ELSE Return([w EXCEPT !.owner = newOwner],
                [name |-> "OwnershipTransferred", previousOwner |-> w.owner,
                 newOwner |-> newOwner])

\* Ownable.renounceOwnership()
renounceOwnership(w, sender) ==
    IF unauthorized(w, sender) THEN Raise(w, "OwnableUnauthorizedAccount")
    ELSE Return([w EXCEPT !.owner = Zero],
                [name |-> "OwnershipTransferred", previousOwner |-> w.owner,
                 newOwner |-> Zero])

(* ------------------------- ReentrancyGuard ---------------------------- *)
\* Never sees a call in flight.
_reentrancyGuardEnteredNever(w) == FALSE

\* nonReentrant, on entry: a guarded call is in flight.
_reentrancyGuardEntered(w) == w.status = ENTERED

\* Leaves the guard held when the call returns.
_nonReentrantAfterHeld(w) == w

\* nonReentrant, on exit.
_nonReentrantAfter(w) == [w EXCEPT !.status = NOT_ENTERED]

(* ----------------------------- token ---------------------------------- *)
Max(a, b) == IF a >= b THEN a ELSE b

\* Balances after moving amount from one holder to another.
Moved(bal, from, to, amount, delta) ==
    LET debited == [bal EXCEPT ![from] = @ - amount]
    IN  [debited EXCEPT ![to] = @ + Max(amount + delta, 0)]

(* --------------------------- vesting math ----------------------------- *)
\* Rounds up instead of down.
mulDivCeil(x, y, d) == (x * y + d - 1) \div d

\* Multiplies in the native word, where the product wraps around.
mulDivNaive(x, y, d) == ((x * y) % (UintMax + 1)) \div d

\* Math.mulDiv: floor(x * y / d) on the full-width product.
mulDiv(x, y, d) == (x * y) \div d

\* Keeps vesting by the clock after a revocation.
_vestedAmountUnfrozen(info, t) ==
    IF info.totalAmount = 0 THEN 0
    ELSE IF t < info.startTime + info.cliffDuration THEN 0
    ELSE IF t >= info.startTime + info.vestingDuration THEN info.totalAmount
    ELSE mulDiv(info.totalAmount, t - info.startTime, info.vestingDuration)

\* Starts the linear schedule at the end of the cliff.
_vestedAmountFromCliff(info, t) ==
    IF info.totalAmount = 0 THEN 0
    ELSE IF info.revoked THEN info.vestedAtRevoke
    ELSE IF t < info.startTime + info.cliffDuration THEN 0
    ELSE IF t >= info.startTime + info.vestingDuration THEN info.totalAmount
    ELSE mulDiv(info.totalAmount,
                t - info.startTime - info.cliffDuration,
                info.vestingDuration)

\* Counts the last second of the cliff's end as cliff.
_vestedAmountCliffInclusive(info, t) ==
    IF info.totalAmount = 0 THEN 0
    ELSE IF info.revoked THEN info.vestedAtRevoke
    ELSE IF t <= info.startTime + info.cliffDuration THEN 0
    ELSE IF t >= info.startTime + info.vestingDuration THEN info.totalAmount
    ELSE mulDiv(info.totalAmount, t - info.startTime, info.vestingDuration)

_vestedAmount(info, t) ==
    IF info.totalAmount = 0 THEN 0
    ELSE IF info.revoked THEN info.vestedAtRevoke
    ELSE IF t < info.startTime + info.cliffDuration THEN 0
    ELSE IF t >= info.startTime + info.vestingDuration THEN info.totalAmount
    ELSE mulDiv(info.totalAmount, t - info.startTime, info.vestingDuration)

\* Lets nothing out once the vesting period is over.
_releasableAmountExpired(info, t) ==
    LET vested == _vestedAmount(info, t)
    IN  IF ~info.revoked /\ t >= info.startTime + info.vestingDuration
        THEN 0
        ELSE vested - info.releasedAmount

\* Forgets the revocation once the vesting period is over.
_releasableAmountAtEnd(info, t) ==
    LET vested == _vestedAmount(info, t)
    IN  IF t >= info.startTime + info.vestingDuration
        THEN info.totalAmount - info.releasedAmount
        ELSE vested - info.releasedAmount

\* Leaves nothing to release once the record is revoked.
_releasableAmountRevokedNone(info, t) ==
    LET vested == _vestedAmount(info, t)
    IN  IF info.revoked THEN 0
        ELSE IF t >= info.startTime + info.vestingDuration
        THEN info.totalAmount - info.releasedAmount
        ELSE vested - info.releasedAmount

\* Forgets what was released already.
_releasableAmountVested(info, t) == _vestedAmount(info, t)

\* Releases everything as soon as the cliff is over.
_releasableAmountAtCliff(info, t) ==
    LET vested == _vestedAmount(info, t)
    IN  IF ~info.revoked /\ t >= info.startTime + info.cliffDuration
        THEN info.totalAmount - info.releasedAmount
        ELSE vested - info.releasedAmount

\* Negative: the checked subtraction underflows (Panic).
_releasableAmount(info, t) ==
    LET vested == _vestedAmount(info, t)
    IN  IF ~info.revoked /\ t >= info.startTime + info.vestingDuration
        THEN info.totalAmount - info.releasedAmount
        ELSE vested - info.releasedAmount

(* ----------------------------- progress ------------------------------- *)
\* Reports for a revoked record the share of the amount that had vested.
getVestingProgressShare(info, t) ==
    IF info.totalAmount = 0 THEN 0
    ELSE IF info.revoked
         THEN (info.vestedAtRevoke * 100) \div info.totalAmount
    ELSE IF t < info.startTime + info.cliffDuration THEN 0
    ELSE IF t >= info.startTime + info.vestingDuration THEN 100
    ELSE LET elapsed == t - info.startTime
         IN  (elapsed * 100) \div info.vestingDuration

\* Counts the percentage over the window that follows the cliff.
getVestingProgressPostCliff(info, t) ==
    IF info.totalAmount = 0 THEN 0
    ELSE IF info.revoked THEN 100
    ELSE IF t < info.startTime + info.cliffDuration THEN 0
    ELSE IF t >= info.startTime + info.vestingDuration THEN 100
    ELSE LET elapsed == t - info.startTime - info.cliffDuration
         IN  (elapsed * 100) \div (info.vestingDuration - info.cliffDuration)

\* getVestingProgress()
getVestingProgress(info, t) ==
    IF info.totalAmount = 0 THEN 0
    ELSE IF info.revoked THEN 100
    ELSE IF t < info.startTime + info.cliffDuration THEN 0
    ELSE IF t >= info.startTime + info.vestingDuration THEN 100
    ELSE LET elapsed == t - info.startTime
         IN  (elapsed * 100) \div info.vestingDuration

\* getRemainingVestingTime()
getRemainingVestingTime(info, t) ==
    IF info.totalAmount = 0 THEN 0
    ELSE IF info.revoked THEN 0
    ELSE LET endTime == info.startTime + info.vestingDuration
         IN  IF t >= endTime THEN 0 ELSE endTime - t

(* ------------------------- createLockup ------------------------------- *)
\* Lets a lockup of no tokens through.
createLockupCheckZeroAmount(w, _beneficiary, amount, cliffDuration, vestingDuration) ==
    IF w.beneficiary # Zero THEN "LockupAlreadyExists"
    ELSE IF vestingDuration = 0 THEN "InvalidDuration"
    ELSE IF cliffDuration >= vestingDuration THEN "InvalidDuration"
    ELSE IF vestingDuration > MAX_VESTING_DURATION THEN "InvalidDuration"
    ELSE IF _beneficiary = Zero THEN "InvalidBeneficiary"
    ELSE IF _beneficiary = This THEN "InvalidBeneficiary"
    ELSE NoError

\* Accepts a cliff as long as the whole vesting duration.
createLockupCheckCliffEqual(w, _beneficiary, amount, cliffDuration, vestingDuration) ==
    IF w.beneficiary # Zero THEN "LockupAlreadyExists"
    ELSE IF amount = 0 THEN "InvalidAmount"
    ELSE IF vestingDuration = 0 THEN "InvalidDuration"
    ELSE IF cliffDuration > vestingDuration THEN "InvalidDuration"
    ELSE IF vestingDuration > MAX_VESTING_DURATION THEN "InvalidDuration"
    ELSE IF _beneficiary = Zero THEN "InvalidBeneficiary"
    ELSE IF _beneficiary = This THEN "InvalidBeneficiary"
    ELSE NoError

\* Never looks for an existing record.
createLockupCheckNoExisting(w, _beneficiary, amount, cliffDuration, vestingDuration) ==
    IF amount = 0 THEN "InvalidAmount"
    ELSE IF vestingDuration = 0 THEN "InvalidDuration"
    ELSE IF cliffDuration >= vestingDuration THEN "InvalidDuration"
    ELSE IF vestingDuration > MAX_VESTING_DURATION THEN "InvalidDuration"
    ELSE IF _beneficiary = Zero THEN "InvalidBeneficiary"
    ELSE IF _beneficiary = This THEN "InvalidBeneficiary"
    ELSE NoError

\* Looks at the beneficiary before the amount and the durations.
createLockupCheckBeneficiaryFirst(w, _beneficiary, amount, cliffDuration, vestingDuration) ==
    IF w.beneficiary # Zero THEN "LockupAlreadyExists"
    ELSE IF _beneficiary = Zero THEN "InvalidBeneficiary"
    ELSE IF _beneficiary = This THEN "InvalidBeneficiary"
    ELSE IF amount = 0 THEN "InvalidAmount"
    ELSE IF vestingDuration = 0 THEN "InvalidDuration"
    ELSE IF cliffDuration >= vestingDuration THEN "InvalidDuration"
    ELSE IF vestingDuration > MAX_VESTING_DURATION THEN "InvalidDuration"
    ELSE NoError

\* Checks 1 to 4 of createLockup, in the order of the code: the error of the
\* first one that fails.
createLockupCheck(w, _beneficiary, amount, cliffDuration, vestingDuration) ==
    IF w.beneficiary # Zero THEN "LockupAlreadyExists"
    ELSE IF amount = 0 THEN "InvalidAmount"
    ELSE IF vestingDuration = 0 THEN "InvalidDuration"
    ELSE IF cliffDuration >= vestingDuration THEN "InvalidDuration"
    ELSE IF vestingDuration > MAX_VESTING_DURATION THEN "InvalidDuration"
    ELSE IF _beneficiary = Zero THEN "InvalidBeneficiary"
    ELSE IF _beneficiary = This THEN "InvalidBeneficiary"
    ELSE NoError

\* Takes the balance after the pull for the amount received.
actualReceivedNoBefore(balanceAfter, balanceBefore) == balanceAfter

actualReceived(balanceAfter, balanceBefore) == balanceAfter - balanceBefore

\* createLockup up to its call of token.safeTransferFrom: the error raised,
\* or the world the transfer is requested in and the request itself.
createLockupRequest(w, sender, _beneficiary, amount, cliffDuration, vestingDuration, revocable, t) ==
    IF unauthorized(w, sender) THEN Raise(w, "OwnableUnauthorizedAccount")
    ELSE IF _reentrancyGuardEntered(w)
         THEN Raise(w, "ReentrancyGuardReentrantCall")
    ELSE
      LET entered == [w EXCEPT !.status = ENTERED]
          failed == createLockupCheck(entered, _beneficiary, amount,
                                      cliffDuration, vestingDuration)
          stored == [entered EXCEPT
                       !.beneficiary = _beneficiary,
                       !.lockupInfo =
                           [totalAmount |-> amount, releasedAmount |-> 0,
                            startTime |-> t, cliffDuration |-> cliffDuration,
                            vestingDuration |-> vestingDuration,
                            revocable |-> revocable, revoked |-> FALSE,
                            vestedAtRevoke |-> 0]]
      IN  IF failed # NoError THEN Raise(entered, failed)
          ELSE IF entered.balance[sender] < amount
               THEN Raise(entered, "InsufficientBalance")
          ELSE IF entered.allowance < amount
               THEN Raise(entered, "InsufficientAllowance")
          ELSE Return(stored,
                      [name |-> "safeTransferFrom", from |-> sender,
                       to |-> This, amount |-> amount])

\* createLockup from the transfer it requested in world w to its end.
createLockupComplete(w, request, delta) ==
    LET amount == request.amount
        balanceBefore == w.balance[This]
        pulled == [w EXCEPT
                     !.balance = Moved(@, request.from, This, amount, delta),
                     !.allowance = @ - amount]
        balanceAfter == pulled.balance[This]
    IN  IF actualReceived(balanceAfter, balanceBefore) < amount
        THEN Raise(pulled, "InsufficientTokensReceived")
        ELSE Return(_nonReentrantAfter(pulled),
                    [name |-> "TokensLocked", beneficiary |-> w.beneficiary,
                     amount |-> amount,
                     startTime |-> w.lockupInfo.startTime,
                     cliffDuration |-> w.lockupInfo.cliffDuration,
                     vestingDuration |-> w.lockupInfo.vestingDuration,
                     revocable |-> w.lockupInfo.revocable])

createLockup(w, sender, _beneficiary, amount, cliffDuration, vestingDuration, revocable, t, delta) ==
    LET req == createLockupRequest(w, sender, _beneficiary, amount,
                                   cliffDuration, vestingDuration,
                                   revocable, t)
    IN  IF req.err # NoError THEN req
        ELSE createLockupComplete(req.w, req.event, delta)

(* ----------------------------- release -------------------------------- *)
\* Overwrites the running total with the last payout.
releasedAfterAssign(released, releasable) == releasable

\* lockupInfo.releasedAmount += releasable
releasedAfter(released, releasable) == released + releasable

\* Lets anybody release.
notBeneficiaryNever(sender, b) == FALSE

\* if (msg.sender != beneficiary) revert NotBeneficiary()
notBeneficiary(sender, b) == sender # b

\* Lets a release of nothing go through.
noTokensAvailableNever(releasable) == FALSE

\* if (releasable == 0) revert NoTokensAvailable()
noTokensAvailable(releasable) == releasable = 0

\* release up to its call of token.safeTransfer.
releaseRequest(w, sender, t) ==
    IF _reentrancyGuardEntered(w)
    THEN Raise(w, "ReentrancyGuardReentrantCall")
    ELSE
      LET entered == [w EXCEPT !.status = ENTERED]
          releasable == _releasableAmount(entered.lockupInfo, t)
          counted == [entered EXCEPT
                        !.lockupInfo.releasedAmount =
                            releasedAfter(@, releasable)]
      IN  IF notBeneficiary(sender, entered.beneficiary)
          THEN Raise(entered, "NotBeneficiary")
          ELSE IF entered.lockupInfo.totalAmount = 0
               THEN Raise(entered, "NoLockupFound")
          ELSE IF releasable < 0 THEN Raise(entered, "Panic")
          ELSE IF noTokensAvailable(releasable)
               THEN Raise(entered, "NoTokensAvailable")
          ELSE Return(counted,
                      [name |-> "safeTransfer", from |-> This,
                       to |-> sender, amount |-> releasable])

\* release from the transfer it requested in world w to its end.
releaseComplete(w, request, delta) ==
    LET releasable == request.amount
        pushed == [w EXCEPT
                     !.balance = Moved(@, This, request.to, releasable,
                                       delta),
                     !.paidOut = @ + releasable]
    IN  IF w.balance[This] < releasable
        THEN Raise(w, "ERC20InsufficientBalance")
        ELSE Return(_nonReentrantAfter(pushed),
                    [name |-> "TokensReleased", beneficiary |-> request.to,
                     amount |-> releasable])

release(w, sender, t, delta) ==
    LET req == releaseRequest(w, sender, t)
    IN  IF req.err # NoError THEN req
        ELSE releaseComplete(req.w, req.event, delta)

(* ------------------------------ revoke -------------------------------- *)
\* Refunds the whole lockup.
refundOfTotal(info, vested) == info.totalAmount

\* Refunds whatever has not been released yet.
refundOfUnreleased(info, vested) == info.totalAmount - info.releasedAmount

\* uint256 refund = lockupInfo.totalAmount - vested
refundOf(info, vested) == info.totalAmount - vested

\* Lets a record that is not revocable be revoked.
revokeCheckNoRevocable(info) ==
    IF info.totalAmount = 0 THEN "NoLockupFound"
    ELSE IF info.revoked THEN "AlreadyRevoked"
    ELSE NoError

\* Lets a revoked record be revoked again.
revokeCheckNoRevoked(info) ==
    IF info.totalAmount = 0 THEN "NoLockupFound"
    ELSE IF ~info.revocable THEN "NotRevocable"
    ELSE NoError

\* The three preconditions of revoke, in the order of the code: the error
\* of the first one that fails.
revokeCheck(info) ==
    IF info.totalAmount = 0 THEN "NoLockupFound"
    ELSE IF info.revoked THEN "AlreadyRevoked"
    ELSE IF ~info.revocable THEN "NotRevocable"
    ELSE NoError

\* Freezes at nothing, whatever had vested.
frozenAtZero(info, vested) ==
    [info EXCEPT !.revoked = TRUE, !.vestedAtRevoke = 0]

\* Freezes at what had vested and was not released yet.
frozenAtUnreleased(info, vested) ==
    [info EXCEPT !.revoked = TRUE,
                 !.vestedAtRevoke = vested - info.releasedAmount]

\* Freezes at what was released, not at what had vested.
frozenAtReleased(info, vested) ==
    [info EXCEPT !.revoked = TRUE, !.vestedAtRevoke = info.releasedAmount]

\* Also cuts totalAmount down to what had vested.
frozenAtTruncated(info, vested) ==
    [info EXCEPT !.revoked = TRUE, !.vestedAtRevoke = vested,
                 !.totalAmount = vested]

\* Leaves the record as it is until the refund is made.
frozenAtLater(info, vested) == info

\* lockupInfo.revoked = true; lockupInfo.vestedAtRevoke = vested
frozenAt(info, vested) ==
    [info EXCEPT !.revoked = TRUE, !.vestedAtRevoke = vested]

\* Lets a revoke with nothing to refund go through.
nothingToRevokeNever(refund) == FALSE

\* if (refund == 0) revert NothingToRevoke()
nothingToRevoke(refund) == refund = 0

\* revoke up to its call of token.safeTransfer.
revokeRequest(w, sender, t) ==
    IF unauthorized(w, sender) THEN Raise(w, "OwnableUnauthorizedAccount")
    ELSE IF _reentrancyGuardEntered(w)
         THEN Raise(w, "ReentrancyGuardReentrantCall")
    ELSE
      LET entered == [w EXCEPT !.status = ENTERED]
          info == entered.lockupInfo
          computed == _vestedAmount(info, t)
          vested == IF computed > info.totalAmount
                    THEN info.totalAmount ELSE computed
          refund == refundOf(info, vested)
          frozen == [entered EXCEPT !.lockupInfo = frozenAt(@, vested)]
      IN  IF revokeCheck(info) # NoError
          THEN Raise(entered, revokeCheck(info))
          ELSE IF nothingToRevoke(refund)
               THEN Raise(entered, "NothingToRevoke")
          ELSE Return(frozen,
                      [name |-> "safeTransfer", from |-> This,
                       to |-> entered.owner, amount |-> refund])

\* revoke from the transfer it requested in world w to its end.
revokeComplete(w, request, delta) ==
    LET refund == request.amount
        pushed == [w EXCEPT
                     !.balance = Moved(@, This, request.to, refund, delta),
                     !.refundPaid = @ + refund]
    IN  IF w.balance[This] < refund
        THEN Raise(w, "ERC20InsufficientBalance")
        ELSE Return(_nonReentrantAfter(pushed),
                    [name |-> "LockupRevoked", beneficiary |-> w.beneficiary,
                     refundAmount |-> refund])

revoke(w, sender, t, delta) ==
    LET req == revokeRequest(w, sender, t)
    IN  IF req.err # NoError THEN req
        ELSE revokeComplete(req.w, req.event, delta)

(* ------------- the one-lockup-per-address shape (part_003) ------------ *)
\* lockups[a]: storage that was never written reads as zero.
lockupOf(w, a) == IF a \in Keys THEN w.lockups[a] ELSE EmptyLockup

\* x * y in the checked arithmetic of Solidity 0.8: negative when the
\* product does not fit the word, where the code reverts with Panic(0x11).
checkedMul(x, y) == IF x * y > UintMax THEN -1 ELSE x * y

\* _vestedAmount(beneficiary) of the per-address shape, on the record of
\* the beneficiary.  Negative: Panic.
_vestedAmountKeyed(info, t) ==
    IF info.totalAmount = 0 THEN 0
    ELSE IF info.revoked THEN info.vestedAtRevoke
    ELSE IF t < info.startTime + info.cliffDuration THEN 0
    ELSE IF t >= info.startTime + info.vestingDuration THEN info.totalAmount
    ELSE LET timeFromStart == t - info.startTime
             product == checkedMul(info.totalAmount, timeFromStart)
         IN  IF product < 0 THEN -1
             ELSE product \div info.vestingDuration

\* _releasableAmount(beneficiary) of the per-address shape.  Negative:
\* Panic, of the multiplication or of a subtraction.
_releasableAmountKeyed(info, t) ==
    LET vested == _vestedAmountKeyed(info, t)
    IN  IF vested < 0 THEN -1
        ELSE IF ~info.revoked /\ t >= info.startTime + info.vestingDuration
        THEN info.totalAmount - info.releasedAmount
        ELSE vested - info.releasedAmount

\* The preconditions of createLockup(beneficiary, ...), in the order of the
\* code: the error of the first one that fails.
createLockupCheckKeyed(w, _beneficiary, amount, cliffDuration, vestingDuration) ==
    IF _beneficiary = Zero THEN "InvalidBeneficiary"
    ELSE IF _beneficiary = This THEN "InvalidBeneficiary"
    ELSE IF amount = 0 THEN "InvalidAmount"
    ELSE IF vestingDuration = 0 THEN "InvalidDuration"
    ELSE IF vestingDuration > MAX_VESTING_DURATION THEN "InvalidDuration"
    ELSE IF cliffDuration > vestingDuration THEN "InvalidDuration"
    ELSE IF lockupOf(w, _beneficiary).totalAmount # 0
         THEN "LockupAlreadyExists"
    ELSE NoError

\* createLockup(beneficiary, amount, cliffDuration, vestingDuration,
\* revocable) of the per-address shape.
createLockupKeyed(w, sender, _beneficiary, amount, cliffDuration, vestingDuration, revocable, t, delta) ==
    IF unauthorized(w, sender) THEN Raise(w, "OwnableUnauthorizedAccount")
    ELSE IF _reentrancyGuardEntered(w)
         THEN Raise(w, "ReentrancyGuardReentrantCall")
    ELSE
      LET entered == [w EXCEPT !.status = ENTERED]
          failed == createLockupCheckKeyed(entered, _beneficiary, amount,
                                           cliffDuration, vestingDuration)
          stored == [entered EXCEPT
                       !.lockups[_beneficiary] =
                           [totalAmount |-> amount, releasedAmount |-> 0,
                            startTime |-> t, cliffDuration |-> cliffDuration,
                            vestingDuration |-> vestingDuration,
                            revocable |-> revocable, revoked |-> FALSE,
                            vestedAtRevoke |-> 0]]
          pulled == [stored EXCEPT
                       !.balance = Moved(@, sender, This, amount, delta),
                       !.allowance = @ - amount]
      IN  IF failed # NoError THEN Raise(entered, failed)
          ELSE IF stored.allowance < amount
               THEN Raise(stored, "ERC20InsufficientAllowance")
          ELSE IF stored.balance[sender] < amount
               THEN Raise(stored, "ERC20InsufficientBalance")
          ELSE Return(_nonReentrantAfter(pulled),
                      [name |-> "TokensLocked",
                       beneficiary |-> _beneficiary, amount |-> amount,
                       startTime |-> t, cliffDuration |-> cliffDuration,
                       vestingDuration |-> vestingDuration,
                       revocable |-> revocable])

\* release() of the per-address shape, called by sender.
releaseKeyed(w, sender, t, delta) ==
    IF _reentrancyGuardEntered(w)
    THEN Raise(w, "ReentrancyGuardReentrantCall")
    ELSE
      LET entered == [w EXCEPT !.status = ENTERED]
          lockup == lockupOf(entered, sender)
          releasable == _releasableAmountKeyed(lockup, t)
          counted == [entered EXCEPT
                        !.lockups[sender].releasedAmount = @ + releasable]
          pushed == [counted EXCEPT
                       !.balance = Moved(@, This, sender, releasable, delta)]
      IN  IF lockup.totalAmount = 0 THEN Raise(entered, "NoLockupFound")
          ELSE IF releasable < 0 THEN Raise(entered, "Panic")
          ELSE IF releasable = 0 THEN Raise(entered, "NoTokensAvailable")
          ELSE IF counted.balance[This] < releasable
               THEN Raise(counted, "ERC20InsufficientBalance")
          ELSE Return(_nonReentrantAfter(pushed),
                      [name |-> "TokensReleased", beneficiary |-> sender,
                       amount |-> releasable])

\* revoke(beneficiary) of the per-address shape.
revokeKeyed(w, sender, _beneficiary, t, delta) ==
    IF unauthorized(w, sender) THEN Raise(w, "OwnableUnauthorizedAccount")
    ELSE IF _reentrancyGuardEntered(w)
         THEN Raise(w, "ReentrancyGuardReentrantCall")
    ELSE
      LET entered == [w EXCEPT !.status = ENTERED]
          lockup == lockupOf(entered, _beneficiary)
          computed == _vestedAmountKeyed(lockup, t)
          vested == IF computed > lockup.totalAmount
                    THEN lockup.totalAmount ELSE computed
          refund == lockup.totalAmount - vested
          frozen == [entered EXCEPT
                       !.lockups[_beneficiary].revoked = TRUE,
                       !.lockups[_beneficiary].vestedAtRevoke = vested]
          pushed == IF refund > 0
                    THEN [frozen EXCEPT
                            !.balance = Moved(@, This, entered.owner,
                                              refund, delta)]
                    ELSE frozen
      IN  IF revokeCheck(lockup) # NoError
          THEN Raise(entered, revokeCheck(lockup))
          ELSE IF computed < 0 THEN Raise(entered, "Panic")
          ELSE IF refund > 0 /\ frozen.balance[This] < refund
               THEN Raise(frozen, "ERC20InsufficientBalance")
          ELSE Return(_nonReentrantAfter(pushed),
                      [name |-> "LockupRevoked",
                       beneficiary |-> _beneficiary,
                       refundAmount |-> refund])

(* ------------------------ the state machine --------------------------- *)
\* Block timestamps the chain passes through: a few early seconds, then half
\* of the longest vesting duration, the whole of it and one second more.
TimePoints ==
    (0..MaxTime)
    \cup {MAX_VESTING_DURATION \div 2,
          MAX_VESTING_DURATION, MAX_VESTING_DURATION + 1}

\* The owner holds one token more than is approved, so an amount can exceed
\* the allowance alone or the allowance and the balance.
AmountInputs == 0..(MaxAmount + 2)
\* No cliff, or one that ends a second before the longest short duration.
CliffInputs == {0, MaxDur - 1}
DurationInputs ==
    (0..MaxDur) \cup {MAX_VESTING_DURATION, MAX_VESTING_DURATION + 1}
BeneficiaryInputs == {Zero, This, Alice}

\* What does not depend on the lockup to come: the token and the clock.
\* The contract may hold a token sent to it before the lockup, unless the
\* token is one that credits more than asked for.
InitChain ==
    /\ owner = Owner
    /\ status = NOT_ENTERED
    /\ tokenDelta \in {-1, 0, 1}
    /\ \E held \in {0, 1} :
          /\ held = 1 => tokenDelta <= 0
          /\ balance = [h \in Holders |->
                           IF h = Owner THEN MaxAmount + 1
                           ELSE IF h = This THEN held ELSE 0]
    /\ allowance = MaxAmount
    /\ paidOut = 0
    /\ refundPaid = 0
    /\ lastOp = "deploy"
    /\ lastEvent = NoEvent
    /\ ret = 0
    /\ pending = NoPending
    /\ lockups = NoLockups

\* The state after construction.
Init ==
    /\ InitChain
    /\ lockupInfo = EmptyLockup
    /\ beneficiary = Zero
    /\ now = 0

\* A transaction op with effect r: a reverted one changes nothing.
Commit(op, r) ==
    IF r.err # NoError THEN UNCHANGED vars
    ELSE
      /\ lockupInfo' = r.w.lockupInfo
      /\ beneficiary' = r.w.beneficiary
      /\ owner' = r.w.owner
      /\ status' = r.w.status
      /\ balance' = r.w.balance
      /\ allowance' = r.w.allowance
      /\ paidOut' = r.w.paidOut
      /\ refundPaid' = r.w.refundPaid
      /\ lastOp' = op
      /\ lastEvent' = r.event
      /\ ret' = 0
      /\ UNCHANGED <<tokenDelta, now, pending, lockups>>

\* Enabled while no record exists: with one in place the call reverts at its
\* first check, before it reads an argument, and the step changes nothing.
CreateLockup ==
    /\ beneficiary = Zero
    /\ \E sender \in Callers, b \in BeneficiaryInputs,
          amount \in AmountInputs, cliff \in CliffInputs,
          duration \in DurationInputs, revocable \in BOOLEAN :
           Commit("createLockup",
                  Transact(World,
                           createLockup(World, sender, b, amount, cliff,
                                        duration, revocable, now,
                                        tokenDelta)))

Release ==
    \E sender \in Callers :
        Commit("release",
               Transact(World, release(World, sender, now, tokenDelta)))

Revoke ==
    \E sender \in Callers :
        Commit("revoke",
               Transact(World, revoke(World, sender, now, tokenDelta)))

\* A later block: time only moves forward.
AdvanceTime ==
    /\ pending = NoPending
    /\ \E t \in TimePoints : t > now /\ now' = t
    /\ lastOp' = "advanceTime"
    /\ lastEvent' = NoEvent
    /\ ret' = 0
    /\ UNCHANGED <<lockupInfo, beneficiary, owner, status, balance,
                   allowance, tokenDelta, paidOut, refundPaid, pending,
                   lockups>>

\* A view call: returns a value, writes nothing.
vestedAmount ==
    /\ ret' = _vestedAmount(lockupInfo, now)
    /\ lastOp' = "vestedAmount"
    /\ lastEvent' = NoEvent
    /\ UNCHANGED <<lockupInfo, beneficiary, owner, status, balance,
                   allowance, tokenDelta, now, paidOut, refundPaid,
                   pending, lockups>>

Next ==
    \/ CreateLockup
    \/ Release
    \/ Revoke
    \/ AdvanceTime

Spec == Init /\ [][Next]_vars

(* ------------- a standard token and no tokens sent in ---------------- *)
\* After construction with a token that delivers what is asked for and a
\* contract that holds nothing: only the contract moves its own balance.
InitStandard ==
    /\ Init
    /\ tokenDelta = 0
    /\ balance[This] = 0

SpecStandard == InitStandard /\ [][Next]_vars

(* ------------------ time and the beneficiary go on -------------------- *)
\* The last block timestamp the chain passes through.
LastTime == MAX_VESTING_DURATION + 1

\* A createLockup whose vesting period ends by the last block.
CreateLockupInTime ==
    /\ CreateLockup
    /\ lockupInfo'.startTime + lockupInfo'.vestingDuration <= LastTime

NextLive ==
    \/ CreateLockupInTime
    \/ Release
    \/ Revoke
    \/ AdvanceTime

\* Time keeps advancing, and the beneficiary calls release() whenever the
\* call would pay something.
SpecLive ==
    /\ Init
    /\ [][NextLive]_vars
    /\ WF_vars(AdvanceTime)
    /\ WF_vars(Release)

(* ------------------- with the operations of Ownable ------------------- *)
\* Whom the owner can hand the contract to.
NewOwnerInputs == {Zero, Owner, Alice}

TransferOwnership ==
    \E sender \in Callers, newOwner \in NewOwnerInputs :
        Commit("transferOwnership",
               Transact(World, transferOwnership(World, sender, newOwner)))

RenounceOwnership ==
    \E sender \in Callers :
        Commit("renounceOwnership",
               Transact(World, renounceOwnership(World, sender)))

\* Every state-changing function of the deployed contract.
NextOwnable ==
    \/ Next
    \/ TransferOwnership
    \/ RenounceOwnership

SpecOwnable == Init /\ [][NextOwnable]_vars

(* ------------------------- calls in flight ---------------------------- *)
\* Every call that can be made into the contract from world w.
NestedCalls(w) ==
    {createLockup(w, sender, b, amount, cliff, duration, revocable, now,
                  tokenDelta) :
        sender \in Callers, b \in BeneficiaryInputs,
        amount \in AmountInputs, cliff \in CliffInputs,
        duration \in DurationInputs, revocable \in BOOLEAN}
    \cup {release(w, sender, now, tokenDelta) : sender \in Callers}
    \cup {revoke(w, sender, now, tokenDelta) : sender \in Callers}

\* The contract and token state becomes w.
Becomes(w) ==
    /\ lockupInfo' = w.lockupInfo
    /\ beneficiary' = w.beneficiary
    /\ owner' = w.owner
    /\ status' = w.status
    /\ balance' = w.balance
    /\ allowance' = w.allowance
    /\ paidOut' = w.paidOut
    /\ refundPaid' = w.refundPaid
    /\ UNCHANGED lockups

\* A guarded call has run up to its token transfer with outcome req: a
\* call that fails before it changes nothing, the others wait for the token
\* with their writes made and the guard held.
Begin(op, req) ==
    /\ pending = NoPending
    /\ IF req.err # NoError THEN UNCHANGED vars
       ELSE /\ Becomes(req.w)
            /\ pending' = [op |-> op, request |-> req.event,
                           entry |-> World, lastOp |-> lastOp,
                           lastEvent |-> lastEvent, ret |-> ret]
            /\ UNCHANGED <<tokenDelta, now, lastOp, lastEvent, ret>>

BeginCreateLockup ==
    /\ beneficiary = Zero
    /\ \E sender \in Callers, b \in BeneficiaryInputs,
          amount \in AmountInputs, cliff \in CliffInputs,
          duration \in DurationInputs, revocable \in BOOLEAN :
           Begin("createLockup",
                 createLockupRequest(World, sender, b, amount, cliff,
                                     duration, revocable, now))

BeginRelease ==
    \E sender \in Callers :
        Begin("release", releaseRequest(World, sender, now))

BeginRevoke ==
    \E sender \in Callers :
        Begin("revoke", revokeRequest(World, sender, now))

\* The calls a callback makes: a release or a revoke by either account, or
\* a createLockup by either account for one valid lockup.
CallbackCalls(w) ==
    {createLockup(w, sender, Alice, 1, 0, 1, revocable, now, tokenDelta) :
        sender \in Callers, revocable \in BOOLEAN}
    \cup {release(w, sender, now, tokenDelta) : sender \in Callers}
    \cup {revoke(w, sender, now, tokenDelta) : sender \in Callers}

\* The token, or a hook of the account it pays, calls back into the
\* contract while the transfer is under way: one of the guarded functions,
\* then the view releasableAmount().
Callback ==
    /\ pending # NoPending
    /\ \E call \in CallbackCalls(World) :
          LET r == Transact(World, call)
          IN  /\ Becomes(r.w)
              /\ lastOp' = "callback"
              /\ lastEvent' = r.event
              /\ ret' = _releasableAmount(r.w.lockupInfo, now)
              /\ UNCHANGED <<tokenDelta, now, pending>>

\* The body of the call in flight from its transfer on.
Completion ==
    IF pending.op = "createLockup"
    THEN createLockupComplete(World, pending.request, tokenDelta)
    ELSE IF pending.op = "release"
    THEN releaseComplete(World, pending.request, tokenDelta)
    ELSE revokeComplete(World, pending.request, tokenDelta)

\* The transfer returns and the call runs to its end; a revert of the
\* transfer or of the code after it takes the chain back to where the call
\* was entered.
Complete ==
    /\ pending # NoPending
    /\ pending' = NoPending
    /\ UNCHANGED <<tokenDelta, now>>
    /\ IF Completion.err # NoError
       THEN /\ Becomes(pending.entry)
            /\ lastOp' = pending.lastOp
            /\ lastEvent' = pending.lastEvent
            /\ ret' = pending.ret
       ELSE /\ Becomes(Completion.w)
            /\ lastOp' = pending.op
            /\ lastEvent' = Completion.event
            /\ ret' = 0

\* The lockup operations with the token transfer as a step of its own.
NextInFlight ==
    \/ BeginCreateLockup
    \/ BeginRelease
    \/ BeginRevoke
    \/ Callback
    \/ Complete
    \/ AdvanceTime

SpecInFlight == Init /\ [][NextInFlight]_vars

(* ------------------------- the progress view -------------------------- *)
\* The view getVestingProgress() is called.
GetVestingProgress ==
    /\ ret' = getVestingProgress(lockupInfo, now)
    /\ lastOp' = "getVestingProgress"
    /\ lastEvent' = NoEvent
    /\ UNCHANGED <<lockupInfo, beneficiary, owner, status, balance,
                   allowance, tokenDelta, now, paidOut, refundPaid,
                   pending, lockups>>

(* ----------------------- amounts near the word size ------------------- *)
\* Lockups of the largest amounts a word can hold, created at time 0 by a
\* standard token and fully funded, with short durations.
WideRecords ==
    { [totalAmount |-> a, releasedAmount |-> 0, startTime |-> 0,
       cliffDuration |-> c, vestingDuration |-> d, revocable |-> rv,
       revoked |-> FALSE, vestedAtRevoke |-> 0] :
         a \in {UintMax - 1, UintMax}, c \in 0..MaxDur,
         d \in 1..(MaxDur + 1), rv \in BOOLEAN }

InitWide ==
    /\ lockupInfo \in {r \in WideRecords :
                          r.cliffDuration < r.vestingDuration}
    /\ beneficiary = Alice
    /\ owner = Owner
    /\ status = NOT_ENTERED
    /\ balance = [h \in Holders |->
                    IF h = This THEN lockupInfo.totalAmount ELSE 0]
    /\ allowance = 0
    /\ tokenDelta = 0
    /\ now = 0
    /\ paidOut = 0
    /\ refundPaid = 0
    /\ lastOp = "createLockup"
    /\ lastEvent = NoEvent
    /\ ret = 0
    /\ pending = NoPending
    /\ lockups = NoLockups

\* The next of the early blocks.
NextBlock ==
    /\ now < MaxTime
    /\ now' = now + 1
    /\ lastOp' = "advanceTime"
    /\ lastEvent' = NoEvent
    /\ ret' = 0
    /\ UNCHANGED <<lockupInfo, beneficiary, owner, status, balance,
                   allowance, tokenDelta, paidOut, refundPaid, pending,
                   lockups>>

NextWide ==
    \/ vestedAmount
    \/ Release
    \/ Revoke
    \/ NextBlock

SpecWide == InitWide /\ [][NextWide]_vars

(* ------------------- the vesting calculator alone --------------------- *)
\* The records createLockup and revoke can leave in storage, with any start
\* among the first seconds and any frozen amount short of the total.
LockupRecords ==
    {EmptyLockup} \cup
    { [totalAmount |-> a, releasedAmount |-> 0, startTime |-> s,
       cliffDuration |-> c, vestingDuration |-> d, revocable |-> TRUE,
       revoked |-> rv, vestedAtRevoke |-> v] :
         a \in 1..MaxAmount, s \in 0..1, c \in CliffInputs,
         d \in {x \in DurationInputs : x > 0 /\ x <= MAX_VESTING_DURATION},
         rv \in BOOLEAN, v \in 0..MaxAmount }

InitCalc ==
    /\ InitChain
    /\ lockupInfo \in {r \in LockupRecords :
                          /\ r.cliffDuration < r.vestingDuration
                          /\ r.vestedAtRevoke < r.totalAmount \/ r = EmptyLockup
                          /\ ~r.revoked => r.vestedAtRevoke = 0}
    /\ beneficiary = IF lockupInfo = EmptyLockup THEN Zero ELSE Alice
    /\ now = 0

NextCalc ==
    \/ vestedAmount
    \/ AdvanceTime

SpecCalc == InitCalc /\ [][NextCalc]_vars

\* A contract without a lockup, or with one with a short duration, read
\* block after block, until the owner revokes.
InitProgress == Init \/ InitWide

NextProgress ==
    \/ GetVestingProgress
    \/ Revoke
    \/ NextBlock

SpecProgress == InitProgress /\ [][NextProgress]_vars

(* ------------------------- the other views ---------------------------- *)
\* The view releasableAmount() is called: a checked subtraction that
\* underflows reverts the call, which then returns nothing.
ReleasableAmount ==
    LET value == _releasableAmount(lockupInfo, now)
    IN  IF value < 0 THEN UNCHANGED vars
        ELSE /\ ret' = value
             /\ lastOp' = "releasableAmount"
             /\ lastEvent' = NoEvent
             /\ UNCHANGED <<lockupInfo, beneficiary, owner, status, balance,
                            allowance, tokenDelta, now, paidOut, refundPaid,
                            pending, lockups>>

\* The view getRemainingVestingTime() is called.
GetRemainingVestingTime ==
    /\ ret' = getRemainingVestingTime(lockupInfo, now)
    /\ lastOp' = "getRemainingVestingTime"
    /\ lastEvent' = NoEvent
    /\ UNCHANGED <<lockupInfo, beneficiary, owner, status, balance,
                   allowance, tokenDelta, now, paidOut, refundPaid,
                   pending, lockups>>

\* The lockup operations and the four views, block after block.
NextQueries ==
    \/ CreateLockup
    \/ Release
    \/ Revoke
    \/ NextBlock
    \/ vestedAmount
    \/ ReleasableAmount
    \/ GetVestingProgress
    \/ GetRemainingVestingTime

SpecQueries == Init /\ [][NextQueries]_vars

(* ------------- the per-address shape as a state machine --------------- *)
\* Accounts of the token and externally owned accounts, with both
\* beneficiaries.
KeyedHolders == {This, Owner} \cup Keys
KeyedCallers == {Owner} \cup Keys

\* The contract and token state a call of the per-address shape reads and
\* writes.
KeyedWorld ==
    [lockups |-> lockups, owner |-> owner, status |-> status,
     balance |-> balance, allowance |-> allowance]

\* No amount or one the owner can fund for each beneficiary; no duration
\* or the longest short one.
KeyedAmountInputs == {0, MaxAmount - 1}
KeyedDurationInputs == {0, MaxDur}
KeyedBeneficiaryInputs == {Zero, This} \cup Keys

\* Lockups of the largest amounts a word can hold, as in WideRecords.
KeyedWideRecords ==
    {r \in WideRecords : r.cliffDuration <= r.vestingDuration}

\* After construction, with an owner who holds and has approved enough for
\* a lockup of the largest amount offered per beneficiary and a token that
\* is standard or charges a fee; or with one funded lockup of an amount
\* near the word size on a standard token.
InitKeyed ==
    /\ owner = Owner
    /\ status = NOT_ENTERED
    /\ \/ /\ lockups = NoLockups
          /\ tokenDelta \in {-1, 0}
          /\ balance = [h \in KeyedHolders |->
                          IF h = Owner THEN 2 * MaxAmount ELSE 0]
          /\ allowance = 2 * MaxAmount
       \/ /\ \E r \in KeyedWideRecords :
                lockups = [NoLockups EXCEPT ![Alice] = r]
          /\ tokenDelta = 0
          /\ balance = [h \in KeyedHolders |->
                          IF h = This THEN lockups[Alice].totalAmount
                          ELSE 0]
          /\ allowance = 0
    /\ lockupInfo = EmptyLockup
    /\ beneficiary = Zero
    /\ now = 0
    /\ paidOut = 0
    /\ refundPaid = 0
    /\ lastOp = "deploy"
    /\ lastEvent = NoEvent
    /\ ret = 0
    /\ pending = NoPending

\* A transaction op of the per-address shape with effect r.
CommitKeyed(op, r) ==
    IF r.err # NoError THEN UNCHANGED vars
    ELSE
      /\ lockups' = r.w.lockups
      /\ owner' = r.w.owner
      /\ status' = r.w.status
      /\ balance' = r.w.balance
      /\ allowance' = r.w.allowance
      /\ lastOp' = op
      /\ lastEvent' = r.event
      /\ ret' = 0
      /\ UNCHANGED <<lockupInfo, beneficiary, tokenDelta, now, paidOut,
                     refundPaid, pending>>

CreateLockupKeyed ==
    \E sender \in Callers, b \in KeyedBeneficiaryInputs,
       amount \in KeyedAmountInputs, cliff \in CliffInputs,
       duration \in KeyedDurationInputs, revocable \in BOOLEAN :
        CommitKeyed("createLockup",
                    Transact(KeyedWorld,
                             createLockupKeyed(KeyedWorld, sender, b, amount,
                                               cliff, duration, revocable,
                                               now, tokenDelta)))

ReleaseKeyed ==
    \E sender \in KeyedCallers :
        CommitKeyed("release",
                    Transact(KeyedWorld,
                             releaseKeyed(KeyedWorld, sender, now,
                                          tokenDelta)))

RevokeKeyed ==
    \E sender \in Callers, b \in Keys :
        CommitKeyed("revoke",
                    Transact(KeyedWorld,
                             revokeKeyed(KeyedWorld, sender, b, now,
                                         tokenDelta)))

NextKeyed ==
    \/ CreateLockupKeyed
    \/ ReleaseKeyed
    \/ RevokeKeyed
    \/ NextBlock

SpecKeyed == InitKeyed /\ [][NextKeyed]_vars

(* ======================= properties of the lockup ===================== *)
Exists == lockupInfo.totalAmount > 0

Elapsed == now - lockupInfo.startTime

CliffEnd == lockupInfo.startTime + lockupInfo.cliffDuration

VestingEnd == lockupInfo.startTime + lockupInfo.vestingDuration

\* What the beneficiary can still be paid under the current state.
StillClaimable ==
    IF lockupInfo.revoked
    THEN lockupInfo.vestedAtRevoke - lockupInfo.releasedAmount
    ELSE lockupInfo.totalAmount - lockupInfo.releasedAmount

\* C1 - Conservation: once a lockup exists, the amount released plus the
\* refund paid to the owner by revoke plus what the beneficiary can still
\* claim equals totalAmount, in every reachable state.
C1_Conservation ==
    Exists =>
        lockupInfo.releasedAmount + refundPaid + StillClaimable
            = lockupInfo.totalAmount

\* A revoked lockup, partly released, with a refund paid and a rest still
\* claimable.
C1_Witness ==
    /\ lockupInfo.revoked
    /\ refundPaid > 0
    /\ lockupInfo.releasedAmount > 0
    /\ StillClaimable > 0

\* C2 - In every reachable state the amount released is at most the amount
\* vested at the current time, which is at most totalAmount.
C2_ReleasedWithinVested ==
    /\ lockupInfo.releasedAmount <= _vestedAmount(lockupInfo, now)
    /\ _vestedAmount(lockupInfo, now) <= lockupInfo.totalAmount

\* Part of the vested amount was released at an earlier time, more has
\* vested since, and the schedule is still running.
C2_Witness ==
    /\ lockupInfo.releasedAmount > 0
    /\ lockupInfo.releasedAmount < _vestedAmount(lockupInfo, now)
    /\ _vestedAmount(lockupInfo, now) < lockupInfo.totalAmount

\* C3 - No dust: a successful release at or after the end of vesting of a
\* lockup that was not revoked leaves releasedAmount = totalAmount, and the
\* beneficiary has been paid totalAmount in all.
C3_NoDust ==
    (lastOp = "release" /\ ~lockupInfo.revoked /\ now >= VestingEnd) =>
        /\ lockupInfo.releasedAmount = lockupInfo.totalAmount
        /\ paidOut = lockupInfo.totalAmount

\* A final release that follows earlier, rounded, releases.
C3_Witness ==
    /\ lastOp = "release"
    /\ ~lockupInfo.revoked
    /\ now >= VestingEnd
    /\ lastEvent.amount < lockupInfo.totalAmount
    /\ lockupInfo.releasedAmount = lockupInfo.totalAmount

\* C4 - No cumulative drift: right after a successful release at time t of
\* a lockup that is not revoked, releasedAmount is the amount vested at t,
\* which inside the vesting window is floor(totalAmount * (t - startTime) /
\* vestingDuration), whatever was released before.
C4_NoDrift ==
    (lastOp = "release" /\ ~lockupInfo.revoked) =>
        /\ lockupInfo.releasedAmount = _vestedAmount(lockupInfo, now)
        /\ now >= CliffEnd
        /\ now < VestingEnd =>
            /\ lockupInfo.releasedAmount * lockupInfo.vestingDuration
                  <= lockupInfo.totalAmount * Elapsed
            /\ lockupInfo.totalAmount * Elapsed
                  < (lockupInfo.releasedAmount + 1)
                        * lockupInfo.vestingDuration
        /\ now >= VestingEnd =>
              lockupInfo.releasedAmount = lockupInfo.totalAmount

\* A release inside the window, after an earlier release, at a time when
\* the exact share is not a whole number.
C4_Witness ==
    /\ lastOp = "release"
    /\ ~lockupInfo.revoked
    /\ now < VestingEnd
    /\ lastEvent.amount < lockupInfo.releasedAmount
    /\ (lockupInfo.totalAmount * Elapsed) % lockupInfo.vestingDuration # 0

\* C5 - Revocation freeze: once the lockup is revoked it stays revoked,
\* vestedAtRevoke never changes, and the vested amount is that value after
\* every later step and at every time.
C5_RevocationFreeze ==
    [][lockupInfo.revoked =>
          /\ lockupInfo'.revoked
          /\ lockupInfo'.vestedAtRevoke = lockupInfo.vestedAtRevoke
          /\ _vestedAmount(lockupInfo', now') = lockupInfo.vestedAtRevoke
          /\ \A t \in TimePoints :
                _vestedAmount(lockupInfo', t) = lockupInfo.vestedAtRevoke]_vars

\* A lockup revoked inside its window, seen after its vesting would have
\* ended.
C5_Witness ==
    /\ lockupInfo.revoked
    /\ lockupInfo.vestedAtRevoke > 0
    /\ lockupInfo.vestedAtRevoke < lockupInfo.totalAmount
    /\ lastOp = "advanceTime"
    /\ now >= VestingEnd

(* ---------------------- calls and their effects ----------------------- *)
\* The outcome of the body of a createLockup call by the owner, and the
\* effect of the call.
CreateBody(b, amount, cliff, duration, revocable) ==
    createLockup(World, Owner, b, amount, cliff, duration, revocable, now,
                 tokenDelta)

CreateCall(b, amount, cliff, duration, revocable) ==
    Transact(World, CreateBody(b, amount, cliff, duration, revocable))

Rejected(w0, r) ==
    LET call == r
    IN  call.err # NoError => (call.w = w0 /\ call.event = NoEvent)

Received(body) == body.w.balance[This] - balance[This]

\* The bodies that got as far as the pull.
Pulled(body) == body.err \in {NoError, "InsufficientTokensReceived"}

\* A step that commits a record.
RecordCommitted == beneficiary = Zero /\ beneficiary' # Zero

C10_VestedAmount ==
    /\ lastOp = "vestedAmount" =>
          IF lockupInfo.totalAmount = 0 THEN ret = 0
          ELSE IF lockupInfo.revoked THEN ret = lockupInfo.vestedAtRevoke
          ELSE IF now < CliffEnd THEN ret = 0
          ELSE IF now >= VestingEnd THEN ret = lockupInfo.totalAmount
          ELSE /\ ret * lockupInfo.vestingDuration
                     <= lockupInfo.totalAmount * Elapsed
               /\ lockupInfo.totalAmount * Elapsed
                     < (ret + 1) * lockupInfo.vestingDuration
    /\ (Exists /\ ~lockupInfo.revoked) =>
          /\ lockupInfo.cliffDuration > 0 =>
                _vestedAmount(lockupInfo, CliffEnd - 1) = 0
          /\ _vestedAmount(lockupInfo, VestingEnd) = lockupInfo.totalAmount

\* A query at the very end of a cliff, inside the window, where the exact
\* share is not a whole number.
C10_Witness ==
    /\ lastOp = "vestedAmount"
    /\ Exists
    /\ ~lockupInfo.revoked
    /\ lockupInfo.cliffDuration > 0
    /\ now = CliffEnd
    /\ ret > 0
    /\ (lockupInfo.totalAmount * Elapsed) % lockupInfo.vestingDuration # 0

(* ------------------------ release and revoke -------------------------- *)
\* The public view: what release would pay at the current block.
releasableAmount == _releasableAmount(lockupInfo, now)

\* A step that is a successful release: it always pays something.
ReleaseStep == lastOp' = "release" /\ paidOut' > paidOut

\* A step that is a successful revoke: it always refunds something.
RevokeStep == lastOp' = "revoke" /\ refundPaid' > refundPaid

\* C11 - releasableAmount is, for every reachable record and time,
\* totalAmount - releasedAmount when the record is not revoked and now >=
\* startTime + vestingDuration and vestedAmount(now) - releasedAmount
\* otherwise, never negative; and a successful release takes exactly this
\* amount out of the contract's balance for the beneficiary, reports it in
\* its event and adds it to releasedAmount.
C11_ReleasableAmount ==
    /\ [](/\ releasableAmount >= 0
          /\ releasableAmount =
                IF ~lockupInfo.revoked /\ now >= VestingEnd
                THEN lockupInfo.totalAmount - lockupInfo.releasedAmount
                ELSE _vestedAmount(lockupInfo, now)
                         - lockupInfo.releasedAmount)
    /\ [][ReleaseStep =>
            /\ paidOut' = paidOut + releasableAmount
            /\ lockupInfo'.releasedAmount =
                   lockupInfo.releasedAmount + releasableAmount
            /\ balance'[This] = balance[This] - releasableAmount
            /\ tokenDelta = 0 =>
                   balance'[beneficiary] =
                       balance[beneficiary] + releasableAmount
            /\ lastEvent' = [name |-> "TokensReleased",
                             beneficiary |-> beneficiary,
                             amount |-> releasableAmount]]_vars

\* A second release inside the vesting window, paid by a standard token:
\* the beneficiary holds all that was released, the last payout was a part.
C11_Witness ==
    /\ lastOp = "release"
    /\ tokenDelta = 0
    /\ now < VestingEnd
    /\ lastEvent.amount > 0
    /\ lastEvent.amount < lockupInfo.releasedAmount
    /\ balance[beneficiary] = lockupInfo.releasedAmount
    /\ releasableAmount = 0

\* The times at which a record is sampled: the block timestamps and the
\* seconds around the end of its cliff and the end of its vesting.
SampleTimes ==
    { t \in TimePoints \cup {CliffEnd - 1, CliffEnd, VestingEnd - 1,
                             VestingEnd, VestingEnd + 1} :
        t >= lockupInfo.startTime }

\* C12 - Monotonicity: for a record that is not revoked, t1 <= t2 implies
\* vestedAmount(t1) <= vestedAmount(t2); the amount is 0 up to the last
\* second of the cliff and floor(totalAmount * cliffDuration /
\* vestingDuration) at its end, it is totalAmount from the end of vesting
\* on, and it never goes down as the clock advances.
C12_Monotonicity ==
    /\ []((Exists /\ ~lockupInfo.revoked) =>
            /\ \A t1, t2 \in SampleTimes :
                  t1 <= t2 => _vestedAmount(lockupInfo, t1)
                                  <= _vestedAmount(lockupInfo, t2)
            /\ lockupInfo.cliffDuration > 0 =>
                  /\ _vestedAmount(lockupInfo, CliffEnd - 1) = 0
                  /\ _vestedAmount(lockupInfo, CliffEnd) =
                        (lockupInfo.totalAmount * lockupInfo.cliffDuration)
                            \div lockupInfo.vestingDuration
            /\ _vestedAmount(lockupInfo, VestingEnd - 1)
                  <= _vestedAmount(lockupInfo, VestingEnd)
            /\ _vestedAmount(lockupInfo, VestingEnd) = lockupInfo.totalAmount
            /\ _vestedAmount(lockupInfo, VestingEnd + 1)
                  = lockupInfo.totalAmount)
    /\ [][(Exists /\ ~lockupInfo.revoked /\ ~lockupInfo'.revoked) =>
             _vestedAmount(lockupInfo, now)
                 <= _vestedAmount(lockupInfo', now')]_vars

\* A query at the very end of vesting of a record with a cliff, whose
\* amount a second earlier was above the jump at the cliff and short of the
\* total.
C12_Witness ==
    /\ lastOp = "vestedAmount"
    /\ Exists
    /\ ~lockupInfo.revoked
    /\ lockupInfo.cliffDuration > 0
    /\ now = VestingEnd
    /\ ret = lockupInfo.totalAmount
    /\ _vestedAmount(lockupInfo, CliffEnd) > 0
    /\ _vestedAmount(lockupInfo, now - 1) < ret

\* Where a record stands in its life.
Phase(info) ==
    IF info.totalAmount = 0 THEN "ABSENT"
    ELSE IF info.revoked THEN "REVOKED"
    ELSE "ACTIVE"

\* The moves of a record: none, created, revoked.
Moves(p, q) ==
    \/ p = q
    \/ p = "ABSENT" /\ q = "ACTIVE"
    \/ p = "ACTIVE" /\ q = "REVOKED"

\* A step that is a successful createLockup.
CreateStep == lastOp' = "createLockup" /\ lockupInfo' # lockupInfo

\* C13 - Lifecycle monotonicity: a record only moves ABSENT -> ACTIVE, by
\* a successful createLockup, and ACTIVE -> REVOKED, by a successful
\* revoke; a record that exists is never created again, whoever calls and
\* with whatever arguments, a revoked record is never revoked again, and no
\* call returns a record to ABSENT or from REVOKED to ACTIVE.
C13_Lifecycle ==
    /\ [][/\ Moves(Phase(lockupInfo), Phase(lockupInfo'))
          /\ (Phase(lockupInfo) = "ABSENT" /\ Phase(lockupInfo') = "ACTIVE")
                <=> CreateStep
          /\ (Phase(lockupInfo) = "ACTIVE" /\ Phase(lockupInfo') = "REVOKED")
                <=> RevokeStep]_vars
    /\ [](Exists <=> beneficiary # Zero)
    /\ [](Exists =>
            LET w0 == World
            IN  \A sender \in Callers, b \in BeneficiaryInputs,
                   amount \in AmountInputs, cliff \in CliffInputs,
                   duration \in DurationInputs, revocable \in BOOLEAN :
                    createLockup(w0, sender, b, amount, cliff, duration,
                                 revocable, now, tokenDelta).err # NoError)
    /\ [](\A sender \in Callers :
            LET released == Transact(World,
                                release(World, sender, now, tokenDelta))
                revoked == Transact(World,
                               revoke(World, sender, now, tokenDelta))
            IN  /\ Phase(released.w.lockupInfo) = Phase(lockupInfo)
                /\ Moves(Phase(lockupInfo), Phase(revoked.w.lockupInfo))
                /\ lockupInfo.revoked => revoked.err # NoError)

\* A revoked record on which the owner's second revoke would find a refund
\* to pay and the balance to pay it, were it not rejected.
C13_Witness ==
    /\ lastOp = "revoke"
    /\ lockupInfo.revoked
    /\ lockupInfo.revocable
    /\ balance[This] >= lockupInfo.totalAmount - lockupInfo.vestedAtRevoke
    /\ revoke(World, Owner, now, tokenDelta).err = "AlreadyRevoked"

\* The fields of a record that are fixed at creation.
Terms(info) ==
    <<info.totalAmount, info.startTime, info.cliffDuration,
      info.vestingDuration, info.revocable>>

\* C14 - Frame conditions: once a record exists, totalAmount, startTime,
\* cliffDuration, vestingDuration, revocable and the beneficiary never
\* change; a successful release changes releasedAmount only, and makes it
\* strictly larger; a successful revoke changes revoked and vestedAtRevoke
\* only, and leaves releasedAmount as it was.
C14_Frame ==
    /\ [][Exists => /\ Terms(lockupInfo') = Terms(lockupInfo)
                    /\ beneficiary' = beneficiary]_vars
    /\ [][ReleaseStep =>
            /\ lockupInfo'.releasedAmount > lockupInfo.releasedAmount
            /\ lockupInfo' =
                  [lockupInfo EXCEPT
                      !.releasedAmount = lockupInfo'.releasedAmount]]_vars
    /\ [][RevokeStep =>
            /\ lockupInfo'.releasedAmount = lockupInfo.releasedAmount
            /\ lockupInfo' =
                  [lockupInfo EXCEPT
                      !.revoked = lockupInfo'.revoked,
                      !.vestedAtRevoke = lockupInfo'.vestedAtRevoke]]_vars
    /\ [](Exists =>
            \A sender \in Callers :
                LET released == Transact(World,
                                    release(World, sender, now, tokenDelta))
                    revoked == Transact(World,
                                   revoke(World, sender, now, tokenDelta))
                IN  /\ Terms(released.w.lockupInfo) = Terms(lockupInfo)
                    /\ Terms(revoked.w.lockupInfo) = Terms(lockupInfo)
                    /\ released.w.beneficiary = beneficiary
                    /\ revoked.w.beneficiary = beneficiary)

\* A revoke that follows a release and freezes more than was released.
C14_Witness ==
    /\ lastOp = "revoke"
    /\ lockupInfo.revoked
    /\ lockupInfo.releasedAmount > 0
    /\ lockupInfo.vestedAtRevoke > lockupInfo.releasedAmount
    /\ Terms(lockupInfo)[1] > lockupInfo.vestedAtRevoke

\* C15 - Revoke effect: a successful revoke at time r sets revoked, stores
\* vestedAmount(r) in vestedAtRevoke and sends exactly totalAmount -
\* vestedAmount(r) from the contract to the owner, whatever has been
\* released before; what the beneficiary can release is the same right
\* after the revoke as right before it.
C15_RevokeEffect ==
    [][RevokeStep =>
         LET vested == _vestedAmount(lockupInfo, now)
             refund == lockupInfo.totalAmount - vested
         IN  /\ ~lockupInfo.revoked
             /\ lockupInfo'.revoked
             /\ lockupInfo'.vestedAtRevoke = vested
             /\ refundPaid' = refundPaid + refund
             /\ balance'[This] = balance[This] - refund
             /\ tokenDelta = 0 => balance'[Owner] = balance[Owner] + refund
             /\ balance'[beneficiary] = balance[beneficiary]
             /\ lastEvent' = [name |-> "LockupRevoked",
                              beneficiary |-> beneficiary,
                              refundAmount |-> refund]
             /\ _releasableAmount(lockupInfo', now')
                   = vested - lockupInfo.releasedAmount
             /\ _releasableAmount(lockupInfo', now') = releasableAmount
             /\ \A t \in TimePoints :
                   t >= now => _releasableAmount(lockupInfo', t)
                                   = vested - lockupInfo.releasedAmount]_vars

\* A revoke by the owner of a standard-token lockup of which a part was
\* released and a further part has vested: the owner got the unvested rest
\* back and the beneficiary can still release the difference.
C15_Witness ==
    /\ lastOp = "revoke"
    /\ tokenDelta = 0
    /\ lockupInfo.releasedAmount > 0
    /\ releasableAmount > 0
    /\ lastEvent.refundAmount
          = lockupInfo.totalAmount - lockupInfo.vestedAtRevoke
    /\ balance[Owner] = MaxAmount + 1 - lockupInfo.vestedAtRevoke
    /\ balance[beneficiary] = lockupInfo.releasedAmount

\* The outcome of the body of a revoke call, and the effect of the call.
RevokeBody(sender) == revoke(World, sender, now, tokenDelta)

RevokeCall(sender) == Transact(World, RevokeBody(sender))

\* C16 - A revoke by the owner of a revocable record that is not revoked
\* and has nothing left to refund, which is the case exactly from startTime
\* + vestingDuration on, is rejected with NothingToRevoke: revoked stays
\* false, vestedAtRevoke stays 0, no token moves and no event is emitted.
C16_NothingToRevoke ==
    (Exists /\ lockupInfo.revocable /\ ~lockupInfo.revoked) =>
        /\ now >= VestingEnd <=>
              lockupInfo.totalAmount - _vestedAmount(lockupInfo, now) = 0
        /\ now >= VestingEnd <=> RevokeCall(Owner).err = "NothingToRevoke"
        /\ now >= VestingEnd =>
              /\ RevokeBody(Owner).w.lockupInfo = lockupInfo
              /\ RevokeBody(Owner).w.balance = balance
              /\ RevokeCall(Owner).w = World
              /\ RevokeCall(Owner).event = NoEvent
              /\ ~RevokeCall(Owner).w.lockupInfo.revoked
              /\ RevokeCall(Owner).w.lockupInfo.vestedAtRevoke = 0

\* A revocable record past the end of its vesting, not released in full,
\* whose revoke is rejected.
C16_Witness ==
    /\ Exists
    /\ lockupInfo.revocable
    /\ ~lockupInfo.revoked
    /\ now >= VestingEnd
    /\ lockupInfo.releasedAmount < lockupInfo.totalAmount
    /\ balance[This] > 0
    /\ RevokeCall(Owner).err = "NothingToRevoke"

\* A revoke call that was rejected with e before it wrote anything.
RevokeRejected(e) ==
    /\ RevokeCall(Owner).err = e
    /\ RevokeBody(Owner).w.lockupInfo = lockupInfo
    /\ RevokeBody(Owner).w.balance = balance
    /\ RevokeCall(Owner).w = World
    /\ RevokeCall(Owner).event = NoEvent

\* C17 - Revoke preconditions: a revoke by the owner is rejected with
\* NoLockupFound while no record exists, with AlreadyRevoked when the
\* record is revoked, and with NotRevocable when it is not revoked and not
\* revocable; the revoked flag is looked at before the revocable flag, so a
\* record with revoked set reports AlreadyRevoked whatever its revocable
\* flag; in each case nothing is written and no token moves.
C17_RevokePreconditions ==
    /\ ~Exists => RevokeRejected("NoLockupFound")
    /\ (Exists /\ lockupInfo.revoked) => RevokeRejected("AlreadyRevoked")
    /\ (Exists /\ ~lockupInfo.revoked /\ ~lockupInfo.revocable) =>
          RevokeRejected("NotRevocable")
    /\ Exists =>
          \A revocable \in BOOLEAN :
              revokeCheck([lockupInfo EXCEPT !.revoked = TRUE,
                                             !.revocable = revocable])
                  = "AlreadyRevoked"

\* A record that is not revocable, inside its vesting window with an
\* unvested rest in the contract, whose revoke is rejected.
C17_Witness ==
    /\ Exists
    /\ ~lockupInfo.revocable
    /\ ~lockupInfo.revoked
    /\ now >= CliffEnd
    /\ now < VestingEnd
    /\ lockupInfo.releasedAmount > 0
    /\ balance[This] >= lockupInfo.totalAmount - _vestedAmount(lockupInfo, now)
    /\ RevokeCall(Owner).err = "NotRevocable"

\* The outcome of the body of a release call at time t, and the effect of
\* the call.
ReleaseBody(sender, t) == release(World, sender, t, tokenDelta)

ReleaseCall(sender, t) == Transact(World, ReleaseBody(sender, t))

\* C18 - Revoke during the cliff: a revoke that succeeds while now <
\* startTime + cliffDuration stores vestedAtRevoke = 0 and refunds
\* totalAmount; once a record is revoked with vestedAtRevoke = 0, every
\* release by the beneficiary, now and at every later time, fails with
\* NoTokensAvailable, and the beneficiary has received and will receive
\* nothing.
C18_CliffRevoke ==
    /\ [][(RevokeStep /\ now < CliffEnd) =>
            /\ lockupInfo'.revoked
            /\ lockupInfo'.vestedAtRevoke = 0
            /\ refundPaid' = lockupInfo.totalAmount
            /\ lastEvent'.refundAmount = lockupInfo.totalAmount
            /\ paidOut' = 0]_vars
    /\ []((Exists /\ lockupInfo.revoked /\ lockupInfo.vestedAtRevoke = 0) =>
            /\ paidOut = 0
            /\ lockupInfo.releasedAmount = 0
            /\ balance[beneficiary] = 0
            /\ \A t \in TimePoints :
                  t >= now =>
                      /\ ReleaseCall(beneficiary, t).err
                            = "NoTokensAvailable"
                      /\ ReleaseCall(beneficiary, t).w = World)
    /\ [][(lockupInfo.revoked /\ lockupInfo.vestedAtRevoke = 0) =>
              ~ReleaseStep]_vars

\* A record revoked during its cliff, seen after its vesting would have
\* ended: the whole amount went back to the owner and release is rejected.
C18_Witness ==
    /\ lastOp = "advanceTime"
    /\ lockupInfo.revoked
    /\ lockupInfo.cliffDuration > 0
    /\ lockupInfo.totalAmount * lockupInfo.cliffDuration
          >= lockupInfo.vestingDuration
    /\ lockupInfo.vestedAtRevoke = 0
    /\ refundPaid = lockupInfo.totalAmount
    /\ now >= VestingEnd
    /\ ReleaseCall(beneficiary, now).err = "NoTokensAvailable"

\* C19 - Release after revocation: on a revoked record with vestedAtRevoke
\* > releasedAmount a release by the beneficiary succeeds, now and at every
\* later time, and pays exactly vestedAtRevoke - releasedAmount; after it
\* releasedAmount = vestedAtRevoke, every further release fails with
\* NoTokensAvailable, and the beneficiary has been paid vestedAtRevoke in
\* all, never more.
C19_ReleaseAfterRevoke ==
    /\ []((Exists /\ lockupInfo.revoked) =>
            LET due == lockupInfo.vestedAtRevoke - lockupInfo.releasedAmount
            IN  /\ due >= 0
                /\ paidOut = lockupInfo.releasedAmount
                /\ \A t \in TimePoints :
                      t >= now =>
                        LET r == ReleaseCall(beneficiary, t)
                        IN  IF due > 0
                            THEN /\ r.err = NoError
                                 /\ r.event.amount = due
                                 /\ r.w.paidOut = paidOut + due
                                 /\ r.w.balance[This] = balance[This] - due
                                 /\ r.w.lockupInfo.releasedAmount
                                       = lockupInfo.vestedAtRevoke
                            ELSE /\ r.err = "NoTokensAvailable"
                                 /\ r.w = World)
    /\ [][(ReleaseStep /\ lockupInfo.revoked) =>
            /\ lockupInfo'.releasedAmount = lockupInfo.vestedAtRevoke
            /\ paidOut' = lockupInfo.vestedAtRevoke
            /\ lastEvent'.amount
                  = lockupInfo.vestedAtRevoke - lockupInfo.releasedAmount
            /\ release(World', beneficiary', now', tokenDelta').err
                  = "NoTokensAvailable"]_vars

\* The release that follows a revoke which itself followed a release: the
\* beneficiary now has all that had vested at the revoke, less than the
\* total, and a further release is rejected.
C19_Witness ==
    /\ lastOp = "release"
    /\ lockupInfo.revoked
    /\ lastEvent.amount > 0
    /\ lastEvent.amount < lockupInfo.releasedAmount
    /\ paidOut = lockupInfo.vestedAtRevoke
    /\ paidOut < lockupInfo.totalAmount
    /\ ReleaseCall(beneficiary, now).err = "NoTokensAvailable"

\* C20 - While a record exists, a release by the beneficiary is rejected
\* with NoTokensAvailable exactly when releasableAmount is 0, and then
\* releasedAmount and every balance stay as they were; releasableAmount is
\* 0 at every time before startTime + cliffDuration, startTime itself
\* included when there is a cliff, and right after a successful release at
\* the same timestamp.
C20_NoTokensAvailable ==
    Exists =>
        /\ releasableAmount = 0 <=>
              ReleaseCall(beneficiary, now).err = "NoTokensAvailable"
        /\ releasableAmount = 0 =>
              /\ ReleaseBody(beneficiary, now).w.lockupInfo = lockupInfo
              /\ ReleaseBody(beneficiary, now).w.balance = balance
              /\ ReleaseCall(beneficiary, now).w = World
              /\ ReleaseCall(beneficiary, now).event = NoEvent
        /\ (~lockupInfo.revoked /\ now < CliffEnd) => releasableAmount = 0
        /\ (/\ ~lockupInfo.revoked
            /\ lockupInfo.cliffDuration > 0
            /\ now = lockupInfo.startTime) =>
              ReleaseCall(beneficiary, now).err = "NoTokensAvailable"
        /\ lastOp = "release" => releasableAmount = 0

\* A record with a cliff in the block of its creation: the contract holds
\* the tokens and the release is rejected.
C20_Witness ==
    /\ lastOp = "createLockup"
    /\ Exists
    /\ lockupInfo.cliffDuration > 0
    /\ now = lockupInfo.startTime
    /\ balance[This] >= lockupInfo.totalAmount
    /\ ReleaseCall(beneficiary, now).err = "NoTokensAvailable"

(* ------------------------- callers and guards ------------------------- *)
\* C21 - While no record exists, a release by any caller is rejected with
\* NoLockupFound.
C21_ReleaseNoLockupFound ==
    ~Exists =>
        \A sender \in Callers :
            ReleaseCall(sender, now).err = "NoLockupFound"

C23_OwnerGating ==
    /\ [](LET w0 == World
          IN  \A sender \in Callers \ {owner} :
                /\ RevokeCall(sender).err = "OwnableUnauthorizedAccount"
                /\ RevokeBody(sender).w = w0
                /\ \A b \in BeneficiaryInputs, amount \in AmountInputs,
                      cliff \in CliffInputs, duration \in DurationInputs,
                      revocable \in BOOLEAN :
                       LET r == createLockup(w0, sender, b, amount, cliff,
                                             duration, revocable, now,
                                             tokenDelta)
                       IN  /\ r.err = "OwnableUnauthorizedAccount"
                           /\ r.w = w0)
    /\ [][CreateStep =>
            /\ balance'[owner] = balance[owner] - lockupInfo'.totalAmount
            /\ \A h \in Holders \ {This, owner} :
                  balance'[h] = balance[h]]_vars
    /\ [][RevokeStep =>
            /\ balance'[owner] >= balance[owner]
            /\ \A h \in Holders \ {This, owner} :
                  balance'[h] = balance[h]]_vars

\* The beneficiary of a revocable record with an unvested rest tries to
\* revoke it, and to create another one, in a state in which the owner's
\* revoke would go through.
C23_Witness ==
    /\ Exists
    /\ beneficiary = Alice
    /\ owner # Alice
    /\ RevokeCall(owner).err = NoError
    /\ RevokeCall(Alice).err = "OwnableUnauthorizedAccount"
    /\ createLockup(World, Alice, Alice, 1, 0, 1, TRUE, now, tokenDelta).err
          = "OwnableUnauthorizedAccount"

\* C24 - The owner set at construction is the owner in every reachable
\* state: no step changes who passes onlyOwner or who gets the refund of a
\* revoke.
C24_OwnerImmutable ==
    [][/\ owner' = owner
       /\ \A sender \in Callers :
             unauthorized(World', sender) = unauthorized(World, sender)]_vars

\* A call is waiting for its token transfer.
InFlight == pending # NoPending

\* A step taken while the call in flight stays in flight.
CallbackStep == InFlight /\ pending' # NoPending

\* The step in which a release in flight returns successfully.
ReleaseReturns == pending.op = "release" /\ lastOp' = "release"

\* C25 - Re-entrancy rejection: while a createLockup, release or revoke
\* call is in flight, waiting for its token transfer, every nested
\* createLockup, release or revoke, by any caller and with any arguments,
\* is rejected (for re-entrancy, or already for not being the owner)
\* without having written anything, so a callback changes neither the
\* record nor any balance; a release in flight has already counted its
\* whole payment, nothing is releasable inside it, and when it returns it
\* has paid exactly the amount releasable on entry, once.
C25_ReentrancyRejected ==
    /\ [](InFlight =>
            /\ status = ENTERED
            /\ LET w0 == World
               IN  \A r \in NestedCalls(w0) :
                      /\ r.err \in {"ReentrancyGuardReentrantCall",
                                    "OwnableUnauthorizedAccount"}
                      /\ r.w = w0
                      /\ r.event = NoEvent
            /\ \A sender \in Callers :
                  release(World, sender, now, tokenDelta).err
                      = "ReentrancyGuardReentrantCall")
    /\ [](pending.op = "release" =>
            LET entry == pending.entry.lockupInfo
            IN  /\ pending.request.amount = _releasableAmount(entry, now)
                /\ lockupInfo.releasedAmount
                      = entry.releasedAmount + pending.request.amount
                /\ releasableAmount = 0)
    /\ [][CallbackStep => World' = World]_vars
    /\ [][ReleaseReturns =>
            /\ paidOut' - paidOut = pending.request.amount
            /\ lockupInfo' = lockupInfo]_vars

\* A callback has run inside a release of a record the owner could revoke
\* at this moment were the release not in flight: the nested revoke is
\* stopped by the guard.
C25_Witness ==
    /\ pending.op = "release"
    /\ lastOp = "callback"
    /\ lockupInfo.revocable /\ ~lockupInfo.revoked /\ now < VestingEnd
    /\ revoke(World, owner, now, tokenDelta).err
          = "ReentrancyGuardReentrantCall"
    /\ revokeRequest([World EXCEPT !.status = NOT_ENTERED], owner, now).err
          = NoError

\* A body that has run to an end: it was not rejected for re-entrancy and,
\* unless it reverts, which undoes its writes, it has given up the guard.
GuardFree(body) ==
    LET call == body
    IN  /\ call.err # "ReentrancyGuardReentrantCall"
        /\ call.err = NoError => call.w.status = NOT_ENTERED

\* C26 - The re-entrancy guard is released on every exit path: the guard
\* is held exactly while a call is in flight, so whenever no operation is
\* executing it is not held; every createLockup, release or revoke call
\* made then, by any caller and with any arguments, returns with the guard
\* not held whether it succeeds or fails with whatever error, and none is
\* rejected for re-entrancy.
C26_GuardReleased ==
    /\ InFlight <=> status = ENTERED
    /\ ~InFlight =>
          \A sender \in Callers :
             /\ GuardFree(ReleaseBody(sender, now))
             /\ ReleaseCall(sender, now).w.status = NOT_ENTERED
             /\ GuardFree(RevokeBody(sender))
             /\ RevokeCall(sender).w.status = NOT_ENTERED
             /\ LET w0 == World
                IN  \A b \in BeneficiaryInputs, amount \in AmountInputs,
                       cliff \in CliffInputs, duration \in DurationInputs,
                       revocable \in BOOLEAN :
                        GuardFree(createLockup(w0, sender, b, amount, cliff,
                                               duration, revocable, now,
                                               tokenDelta))

\* A release has just returned successfully; a second release by the
\* beneficiary now fails, for having nothing to release, and a revoke by
\* the owner that follows goes through.
C26_Witness ==
    /\ ~InFlight
    /\ lastOp = "release"
    /\ ReleaseCall(beneficiary, now).err = "NoTokensAvailable"
    /\ RevokeCall(owner).err = NoError

\* What a callback finds while a call is in flight: the record as the call
\* leaves it. A createLockup has stored the record and the beneficiary, a
\* release has added its payment to releasedAmount, a revoke has set
\* revoked and vestedAtRevoke; and the call, if it returns, returns with
\* that record.
RecordUpdated ==
    LET entry == pending.entry.lockupInfo
        asked == pending.request.amount
    IN  /\ pending.op = "createLockup" =>
              /\ pending.entry.lockupInfo = EmptyLockup
              /\ pending.entry.beneficiary = Zero
              /\ beneficiary \notin {Zero, This}
              /\ lockupInfo.totalAmount = asked /\ asked > 0
              /\ lockupInfo.startTime = now
              /\ lockupInfo.releasedAmount = 0
              /\ ~lockupInfo.revoked /\ lockupInfo.vestedAtRevoke = 0
              /\ lockupInfo.cliffDuration <= lockupInfo.vestingDuration
              /\ lockupInfo.vestingDuration \in 1..MAX_VESTING_DURATION
        /\ pending.op = "release" =>
              /\ asked > 0
              /\ lockupInfo
                   = [entry EXCEPT !.releasedAmount = @ + asked]
              /\ lockupInfo.releasedAmount <= lockupInfo.totalAmount
        /\ pending.op = "revoke" =>
              /\ asked > 0
              /\ entry.revocable /\ ~entry.revoked
              /\ lockupInfo
                   = [entry EXCEPT
                        !.revoked = TRUE,
                        !.vestedAtRevoke = entry.totalAmount - asked]
        /\ Completion.err = NoError =>
              /\ Completion.w.lockupInfo = lockupInfo
              /\ Completion.w.beneficiary = beneficiary
              /\ Completion.w.owner = owner

\* What the view releasableAmount() returns to a callback, in terms of
\* the record the call was entered with: nothing inside a createLockup or
\* a release, and what had vested and was not yet released inside a revoke.
CallbackSees ==
    LET entry == pending.entry.lockupInfo
        asked == pending.request.amount
    IN  lastOp = "callback" =>
            ret = IF pending.op = "createLockup" THEN 0
                  ELSE IF pending.op = "release"
                       THEN _releasableAmount(entry, now) - asked
                  ELSE entry.totalAmount - asked - entry.releasedAmount

\* C27 as stated: every precondition is validated and every record change
\* committed before the transfer is requested, a callback observes the
\* updated record, and no check rejects the operation after the transfer:
\* every call in flight returns successfully.
C27_NothingRejectsAfterTransfer ==
    InFlight =>
        /\ RecordUpdated
        /\ CallbackSees
        /\ Completion.err = NoError

\* C27 - Check-then-mutate-then-external-call ordering: in each of
\* createLockup, release and revoke every precondition is validated and
\* every record change is committed before the token transfer is
\* requested, so a callback running during the transfer observes the fully
\* updated record, and release and revoke return successfully once the
\* transfer is made; the one check that runs after a transfer is the
\* received-amount check of createLockup, which rejects the call with
\* InsufficientTokensReceived exactly when the token delivered less than
\* the amount asked for, and the record the callback saw is then undone.
C27_ChecksEffectsInteractions ==
    /\ [](InFlight =>
            /\ RecordUpdated
            /\ CallbackSees
            /\ pending.op \in {"release", "revoke"} =>
                  Completion.err = NoError
            /\ pending.op = "createLockup" =>
                  /\ Completion.err
                        \in {NoError, "InsufficientTokensReceived"}
                  /\ Completion.err = "InsufficientTokensReceived"
                        <=> Max(pending.request.amount + tokenDelta, 0)
                               < pending.request.amount)
    /\ [][(InFlight /\ ~InFlight' /\ Completion.err # NoError) =>
            /\ World' = pending.entry
            /\ lockupInfo' = EmptyLockup
            /\ beneficiary' = Zero]_vars

\* A callback has run inside a createLockup and has seen the stored
\* record, and the token delivers less than asked: the check after the
\* transfer is going to reject the call.
C27_Witness ==
    /\ pending.op = "createLockup"
    /\ lastOp = "callback"
    /\ lockupInfo.totalAmount > 0
    /\ Completion.err = "InsufficientTokensReceived"

\* The preconditions of createLockup in the order the claim gives them.
PreconditionOrder ==
    <<"LockupAlreadyExists", "InvalidAmount", "InvalidDuration",
      "InvalidBeneficiary", "InsufficientBalance", "InsufficientAllowance">>

\* The precondition reported as e does not hold for a call of the owner
\* with these arguments in the current state.
Violates(e, b, amount, cliff, duration) ==
    CASE e = "LockupAlreadyExists" -> Exists
      [] e = "InvalidAmount" -> amount = 0
      [] e = "InvalidDuration" ->
            \/ duration = 0
            \/ duration > MAX_VESTING_DURATION
            \/ cliff >= duration
      [] e = "InvalidBeneficiary" -> b \in {Zero, This}
      [] e = "InsufficientBalance" -> balance[owner] < amount
      [] e = "InsufficientAllowance" -> allowance < amount

\* The first precondition, from position i of the order on, that the call
\* violates; NoError if it violates none of them.
RECURSIVE FirstViolated(_, _, _, _, _)
FirstViolated(i, b, amount, cliff, duration) ==
    IF i > Len(PreconditionOrder) THEN NoError
    ELSE IF Violates(PreconditionOrder[i], b, amount, cliff, duration)
         THEN PreconditionOrder[i]
    ELSE FirstViolated(i + 1, b, amount, cliff, duration)

\* The positions in the order of the preconditions the call violates.
Violated(b, amount, cliff, duration) ==
    {i \in DOMAIN PreconditionOrder :
        Violates(PreconditionOrder[i], b, amount, cliff, duration)}

\* C28 - createLockup validation order, first failure wins: a call of the
\* owner that violates one or several of the preconditions key occupied,
\* amount = 0, invalid vesting or cliff duration, invalid beneficiary
\* (zero address or the contract itself), caller balance < amount and
\* caller allowance < amount reports the error of the first one in this
\* order, and has written nothing, moved no token and emitted no event; a
\* call that violates none of them reports none of these errors.
C28_ValidationOrder ==
    ~InFlight =>
        LET w0 == World
        IN  \A b \in BeneficiaryInputs, amount \in AmountInputs,
               cliff \in CliffInputs, duration \in DurationInputs,
               revocable \in BOOLEAN :
                LET body == createLockup(w0, owner, b, amount, cliff,
                                         duration, revocable, now,
                                         tokenDelta)
                    first == FirstViolated(1, b, amount, cliff, duration)
                IN  IF first # NoError
                    THEN /\ body.err = first
                         /\ body.w.lockupInfo = lockupInfo
                         /\ body.w.beneficiary = beneficiary
                         /\ body.w.balance = balance
                         /\ body.w.allowance = allowance
                         /\ Transact(w0, body).w = w0
                         /\ Transact(w0, body).event = NoEvent
                    ELSE body.err
                            \in {NoError, "InsufficientTokensReceived"}

\* A record has just been created; a further call with no amount, no
\* duration and no beneficiary violates four preconditions and reports the
\* occupied key, and so does one for more than the owner holds and has
\* approved.
C28_Witness ==
    /\ ~InFlight
    /\ lastOp = "createLockup"
    /\ Violated(Zero, 0, 0, 0) = {1, 2, 3, 4}
    /\ CreateCall(Zero, 0, 0, 0, FALSE).err = "LockupAlreadyExists"
    /\ Violated(Alice, MaxAmount + 2, 0, 1) = {1, 5, 6}
    /\ CreateCall(Alice, MaxAmount + 2, 0, 1, TRUE).err
          = "LockupAlreadyExists"


(* ------------------------------ word size ------------------------------ *)
\* Math.mulDiv reverts when the quotient does not fit the word.
mulDivOverflows(x, y, d) == (x * y) \div d > UintMax

\* The record is vesting: past the cliff, before the end, not revoked.
Vesting == Exists /\ ~lockupInfo.revoked /\ CliffEnd <= now /\ now < VestingEnd

\* q is the floor of x * y / d.
IsFloor(q, x, y, d) == q * d <= x * y /\ x * y < (q + 1) * d

\* C29 - Overflow safety: for totalAmount up to the largest value of the
\* native word and every elapsed time with cliffDuration <= elapsed <
\* vestingDuration, vestedAmount is exactly floor(totalAmount * elapsed /
\* vestingDuration) of the full-width product, whether or not that product
\* fits the word, and it fits the word itself; vestedAmount, release and
\* revoke never fail because of the size of the product, and release and
\* revoke pay out by the exact quotient.
C29_OverflowSafety ==
    /\ [](Vesting =>
            LET vested == _vestedAmount(lockupInfo, now)
            IN  /\ IsFloor(vested, lockupInfo.totalAmount, Elapsed,
                           lockupInfo.vestingDuration)
                /\ vested <= lockupInfo.totalAmount
                /\ vested <= UintMax
                /\ ~mulDivOverflows(lockupInfo.totalAmount, Elapsed,
                                    lockupInfo.vestingDuration)
                /\ releasableAmount = vested - lockupInfo.releasedAmount
                /\ ReleaseCall(beneficiary, now).err
                      = IF vested > lockupInfo.releasedAmount
                        THEN NoError ELSE "NoTokensAvailable"
                /\ RevokeCall(owner).err
                      = IF lockupInfo.revocable
                        THEN NoError ELSE "NotRevocable")
    /\ []((Vesting /\ lastOp = "vestedAmount") =>
            IsFloor(ret, lockupInfo.totalAmount, Elapsed,
                    lockupInfo.vestingDuration))
    /\ [][(Vesting /\ ReleaseStep) =>
            IsFloor(lockupInfo'.releasedAmount, lockupInfo.totalAmount,
                    Elapsed, lockupInfo.vestingDuration)]_vars
    /\ [][(Vesting /\ RevokeStep) =>
            /\ IsFloor(lockupInfo'.vestedAtRevoke, lockupInfo.totalAmount,
                       Elapsed, lockupInfo.vestingDuration)
            /\ refundPaid'
                  = lockupInfo.totalAmount - lockupInfo'.vestedAtRevoke]_vars

\* vestedAmount has just been read on a vesting record of one of the largest
\* amounts, whose product with the elapsed time does not fit the word, a
\* part of it has been released before, and the quotient is not a whole
\* multiple.
C29_Witness ==
    /\ Vesting
    /\ lastOp = "vestedAmount"
    /\ lockupInfo.totalAmount >= UintMax - 1
    /\ lockupInfo.totalAmount * Elapsed > UintMax
    /\ (lockupInfo.totalAmount * Elapsed) % lockupInfo.vestingDuration # 0
    /\ ret > lockupInfo.releasedAmount
    /\ lockupInfo.releasedAmount > 0


(* ------------------------------ progress ------------------------------- *)
\* The block in which the cliff of a record that has one ends.
CliffEnds ==
    /\ Exists /\ ~lockupInfo.revoked /\ ~lockupInfo'.revoked
    /\ lockupInfo.cliffDuration > 0
    /\ now < CliffEnd /\ now' = CliffEnd

\* C30 - getVestingProgress returns 0 if no record exists, 100 if the
\* record is revoked, even when vestedAtRevoke is 0, or now >= startTime +
\* vestingDuration, 0 if now < startTime + cliffDuration, and otherwise
\* floor((now - startTime) * 100 / vestingDuration), measured from
\* startTime; so in the block where a cliff ends it goes from 0 to
\* floor(cliffDuration * 100 / vestingDuration).
C30_VestingProgress ==
    /\ [](LET progress == getVestingProgress(lockupInfo, now)
          IN  /\ lastOp = "getVestingProgress" => ret = progress
              /\ ~Exists => progress = 0
              /\ (Exists /\ lockupInfo.revoked) => progress = 100
              /\ (Exists /\ ~lockupInfo.revoked /\ now >= VestingEnd) =>
                    progress = 100
              /\ (Exists /\ ~lockupInfo.revoked /\ now < CliffEnd) =>
                    progress = 0
              /\ Vesting =>
                    /\ IsFloor(progress, Elapsed, 100,
                               lockupInfo.vestingDuration)
                    /\ progress < 100)
    /\ [][CliffEnds =>
            /\ getVestingProgress(lockupInfo, now) = 0
            /\ IsFloor(getVestingProgress(lockupInfo', now'),
                       lockupInfo.cliffDuration, 100,
                       lockupInfo.vestingDuration)]_vars

\* The view has just been read in the block where a cliff ends, before the
\* end of the vesting: it returns the share of the whole duration that the
\* cliff took.
C30_Witness ==
    /\ lastOp = "getVestingProgress"
    /\ Vesting
    /\ lockupInfo.cliffDuration > 0
    /\ now = CliffEnd
    /\ ret > 0
    /\ ret = (lockupInfo.cliffDuration * 100) \div lockupInfo.vestingDuration

(* ========== properties of the one-lockup-per-address shape ============ *)
\* The operations on one key: createLockup for it by the owner with each
\* choice of terms, release() by it, revoke of it by the owner.
KeyedCallsOn ==
    {[op |-> "createLockup", amount |-> a, cliff |-> c, duration |-> d,
      revocable |-> rv] :
        a \in KeyedAmountInputs, c \in CliffInputs,
        d \in KeyedDurationInputs, rv \in BOOLEAN}
    \cup {[op |-> o, amount |-> 0, cliff |-> 0, duration |-> 0,
           revocable |-> FALSE] : o \in {"release", "revoke"}}

\* The effect of operation c on key k as a transaction entered in world w.
CallKeyed(w, k, c) ==
    Transact(w,
             IF c.op = "createLockup"
             THEN createLockupKeyed(w, Owner, k, c.amount, c.cliff,
                                    c.duration, c.revocable, now, tokenDelta)
             ELSE IF c.op = "release"
             THEN releaseKeyed(w, k, now, tokenDelta)
             ELSE revokeKeyed(w, Owner, k, now, tokenDelta))

\* An operation b on the other key leaves the record of k as it is, and an
\* operation a on k has the same result before and after b.
IndependentOf(w0, k, other) ==
    \A b \in KeyedCallsOn :
        LET after == CallKeyed(w0, other, b).w
        IN  /\ after.lockups[k] = w0.lockups[k]
            /\ \A a \in KeyedCallsOn :
                  LET alone == CallKeyed(w0, k, a)
                      later == CallKeyed(after, k, a)
                  IN  /\ alone.err = later.err
                      /\ alone.event = later.event
                      /\ alone.w.lockups[k] = later.w.lockups[k]

\* C31: in the per-address shape createLockup(b, ...), release() by b and
\* revoke(b) leave lockups[k] unchanged for every key k other than b, and
\* the result of an operation on key k (its error, its event, the record
\* it leaves) is the same whether an operation on another key ran before
\* it or not.
C31_KeyIndependence ==
    LET w0 == KeyedWorld
    IN  \A k \in Keys, other \in Keys :
            k # other => IndependentOf(w0, k, other)

\* What the pool still has to pay for one record: to the beneficiary, and
\* to the owner if the record was never revoked.
OwedKeyed(info) ==
    info.totalAmount - info.releasedAmount
    - (IF info.revoked THEN info.totalAmount - info.vestedAtRevoke ELSE 0)

\* Every createLockup by the owner for a key, as a transaction.
CreateCallsKeyed(w0) ==
    {[amount |-> a,
      effect |-> Transact(w0, createLockupKeyed(w0, Owner, b, a, c, d, rv,
                                                now, tokenDelta))] :
        b \in Keys, a \in KeyedAmountInputs, c \in CliffInputs,
        d \in KeyedDurationInputs, rv \in BOOLEAN}

\* C32: in the per-address shape a createLockup for which the token
\* delivers less than the requested amount fails and commits no record,
\* the contract holds at least the sum over the keys of totalAmount -
\* releasedAmount - refundPaid, and after a release or a revoke on one key
\* it still holds what backs the other key.
C32_ShortTransferKeyed ==
    LET w0 == KeyedWorld
    IN  /\ \A call \in CreateCallsKeyed(w0) :
              Max(call.amount + tokenDelta, 0) < call.amount =>
                  /\ call.effect.err # NoError
                  /\ call.effect.w = w0
        /\ balance[This] >= OwedKeyed(lockups[Alice]) + OwedKeyed(lockups[Bob])
        /\ \A k \in Keys, other \in Keys, c \in KeyedCallsOn :
              k # other /\ c.op # "createLockup" =>
                  LET paid == CallKeyed(w0, k, c)
                  IN  paid.err = NoError =>
                          paid.w.balance[This]
                              >= OwedKeyed(paid.w.lockups[other])

\* A record of key k is inside its vesting window, cliff over, not revoked.
VestingKeyed(k) ==
    LET info == lockups[k]
    IN  /\ info.totalAmount > 0
        /\ ~info.revoked
        /\ now >= info.startTime + info.cliffDuration
        /\ now < info.startTime + info.vestingDuration

\* C33: in the per-address shape, for a record inside its vesting window,
\* _vestedAmount is floor(totalAmount * elapsed / vestingDuration) of the
\* full-width product, _releasableAmount is that less what was released,
\* and neither they nor release() and revoke() fail with an arithmetic
\* Panic: release() pays whenever something is releasable and revoke
\* succeeds on a revocable record.
C33_OverflowSafetyKeyed ==
    LET w0 == KeyedWorld
    IN  \A k \in Keys :
            VestingKeyed(k) =>
                LET info == lockups[k]
                    elapsed == now - info.startTime
                    vested == _vestedAmountKeyed(info, now)
                    releasable == _releasableAmountKeyed(info, now)
                    released == releaseKeyed(w0, k, now, tokenDelta)
                    revoked == revokeKeyed(w0, Owner, k, now, tokenDelta)
                IN  /\ IsFloor(vested, info.totalAmount, elapsed,
                               info.vestingDuration)
                    /\ releasable = vested - info.releasedAmount
                    /\ released.err # "Panic"
                    /\ revoked.err # "Panic"
                    /\ tokenDelta = 0 /\ releasable > 0 =>
                           released.err = NoError
                    /\ tokenDelta = 0 /\ info.revocable =>
                           revoked.err = NoError

(* ================== properties of the deployed contract =============== *)
\* release() by the beneficiary, then revoke() by the owner, in the same
\* block: the effect of each call.
ReleaseThenRevoke(w0) ==
    LET first == Transact(w0, release(w0, w0.beneficiary, now, tokenDelta))
    IN  [release |-> first,
         revoke |-> Transact(first.w,
                             revoke(first.w, w0.owner, now, tokenDelta))]

\* revoke() by the owner, then release() by the beneficiary, in the same
\* block.
RevokeThenRelease(w0) ==
    LET first == Transact(w0, revoke(w0, w0.owner, now, tokenDelta))
    IN  [revoke |-> first,
         release |-> Transact(first.w,
                              release(first.w, w0.beneficiary, now,
                                      tokenDelta))]

\* C34 - Order independence of a racing release and revoke: from every
\* reachable ACTIVE revocable record and at every time, release() then
\* revoke() and revoke() then release() end with the same record, the same
\* totals paid to the beneficiary and to the owner and the same balances,
\* each call succeeds or fails with the same error in both orders, and
\* after either order the beneficiary has been paid no more than
\* vestedAmount at that time.
C34_RaceOrder ==
    LET w0 == World
    IN  Phase(lockupInfo) = "ACTIVE" /\ lockupInfo.revocable =>
            LET front == ReleaseThenRevoke(w0)
                back == RevokeThenRelease(w0)
            IN  /\ front.revoke.w.lockupInfo = back.release.w.lockupInfo
                /\ front.revoke.w.paidOut = back.release.w.paidOut
                /\ front.revoke.w.refundPaid = back.release.w.refundPaid
                /\ front.revoke.w.balance = back.release.w.balance
                /\ front.release.err = back.release.err
                /\ front.revoke.err = back.revoke.err
                /\ front.revoke.w.paidOut <= _vestedAmount(lockupInfo, now)
                /\ front.revoke.w.lockupInfo.releasedAmount
                       <= _vestedAmount(lockupInfo, now)

\* An active revocable record with something to release and something to
\* refund, part of it released before: both calls succeed in both orders.
C34_Witness ==
    /\ Phase(lockupInfo) = "ACTIVE"
    /\ lockupInfo.revocable
    /\ lockupInfo.releasedAmount > 0
    /\ releasableAmount > 0
    /\ ReleaseThenRevoke(World).release.err = NoError
    /\ ReleaseThenRevoke(World).revoke.err = NoError
    /\ RevokeThenRelease(World).revoke.err = NoError
    /\ RevokeThenRelease(World).release.err = NoError

\* C35 - Custody solvency: with a standard token on which only the contract
\* moves its own balance, the contract's token balance is totalAmount -
\* releasedAmount - refundPaid in every reachable state and never negative;
\* a release or a revoke that passes its checks asks the token for no more
\* than the contract holds and goes through; and nothing is paid twice:
\* the beneficiary holds exactly releasedAmount, the owner has got back
\* exactly refundPaid, and the two add up to no more than totalAmount.
C35_CustodySolvency ==
    LET w0 == World
        asked == {releaseRequest(w0, sender, now) : sender \in Callers}
                 \cup {revokeRequest(w0, sender, now) : sender \in Callers}
    IN  /\ balance[This]
               = lockupInfo.totalAmount - lockupInfo.releasedAmount
                 - refundPaid
        /\ balance[This] >= 0
        /\ \A req \in asked :
               req.err = NoError => req.event.amount <= balance[This]
        /\ \A sender \in Callers :
               /\ ReleaseBody(sender, now).err # "ERC20InsufficientBalance"
               /\ RevokeBody(sender).err # "ERC20InsufficientBalance"
        /\ balance[Alice] = lockupInfo.releasedAmount
        /\ paidOut = lockupInfo.releasedAmount
        /\ balance[Owner] = MaxAmount + 1 - lockupInfo.totalAmount + refundPaid
        /\ paidOut + refundPaid <= lockupInfo.totalAmount

\* A record partly released and then revoked, with the refund paid and a
\* rest still held for the beneficiary.
C35_Witness ==
    /\ lastOp = "revoke"
    /\ paidOut > 0
    /\ refundPaid > 0
    /\ balance[This] > 0

\* Tokens of the three accounts together.
Supply == balance[This] + balance[Owner] + balance[Alice]

\* The token is standard and nobody sent tokens to the contract: all there
\* is are the tokens the owner started with.
NothingSentIn == tokenDelta = 0 /\ Supply = MaxAmount + 1

\* All of the locked amount has left the contract.
Distributed ==
    /\ Exists
    /\ lockupInfo.releasedAmount + refundPaid = lockupInfo.totalAmount
    /\ lockupInfo.releasedAmount
           = IF lockupInfo.revoked THEN lockupInfo.vestedAtRevoke
             ELSE lockupInfo.totalAmount
    /\ paidOut = lockupInfo.releasedAmount
    /\ NothingSentIn => balance[This] = 0

Queries ==
    {"vestedAmount", "releasableAmount", "getVestingProgress",
     "getRemainingVestingTime"}

\* The early block times from now on.
TimesAhead == now..MaxTime

\* A step that is a call of a view.
QueryStep == lastOp' \in Queries

\* C37 - Totality of the queries: in every reachable state, at the block
\* time and at every later one, vestedAmount is a value in
\* 0..totalAmount; the subtractions vested - releasedAmount and
\* totalAmount - releasedAmount of _releasableAmount do not underflow, so
\* releasableAmount is a value in 0..totalAmount; getVestingProgress is a
\* value in 0..100 and getRemainingVestingTime one in 0..vestingDuration,
\* their subtractions of startTime and of the block time not
\* underflowing; and a call of a view changes no state of the contract or
\* the token.
C37_QueriesTotal ==
    /\ [](\A t \in TimesAhead :
            LET info == lockupInfo
                vested == _vestedAmount(info, t)
            IN  /\ t >= info.startTime
                /\ vested \in 0..info.totalAmount
                /\ vested - info.releasedAmount >= 0
                /\ info.totalAmount - info.releasedAmount >= 0
                /\ _releasableAmount(info, t) \in 0..info.totalAmount
                /\ getVestingProgress(info, t) \in 0..100
                /\ getRemainingVestingTime(info, t)
                       \in 0..info.vestingDuration)
    /\ [][QueryStep =>
            /\ World' = World
            /\ now' = now
            /\ lastEvent' = NoEvent]_vars
    /\ [][lastOp' = "releasableAmount" => ret' = releasableAmount]_vars

\* releasableAmount() has just returned a positive amount for a record
\* that was partly released before.
C37_Witness ==
    /\ lastOp = "releasableAmount"
    /\ ret > 0
    /\ lockupInfo.releasedAmount > 0
    /\ ret = _vestedAmount(lockupInfo, now) - lockupInfo.releasedAmount

\* createLockup finds a record in place: its test of beneficiary.
SeenByCreate ==
    createLockupCheck(World, Alice, 1, 0, 1) = "LockupAlreadyExists"

\* release, revoke and the views find a record: their test of totalAmount.
SeenByOthers == revokeCheck(lockupInfo) # "NoLockupFound"

\* C38 - The two existence sentinels agree in every reachable state, a
\* call waiting for its token transfer included: beneficiary is not
\* address(0) exactly when lockupInfo.totalAmount > 0, so createLockup,
\* which tests beneficiary, and release, revoke and the views, which
\* test totalAmount, agree on whether a record exists.
C38_SentinelsAgree ==
    /\ beneficiary # Zero <=> lockupInfo.totalAmount > 0
    /\ SeenByCreate <=> SeenByOthers
    /\ SeenByCreate <=> Exists
    /\ lockupInfo.totalAmount = 0 =>
           /\ _vestedAmount(lockupInfo, now) = 0
           /\ getVestingProgress(lockupInfo, 0) = 0
           /\ getRemainingVestingTime(lockupInfo, now) = 0

\* A createLockup waits for its transfer with the record stored, and a
\* nested createLockup finds it.
C38_Witness ==
    /\ pending.op = "createLockup"
    /\ beneficiary = Alice
    /\ lockupInfo.totalAmount > 0
    /\ SeenByCreate

\* What getVestingProgress() returns in the current block.
Progress == getVestingProgress(lockupInfo, now)

\* C39 - getVestingProgress is in 0..100 in every reachable state and
\* never decreases along an execution: no step, be it a later block, a
\* createLockup, a release or a revoke, successful or failed, or a view,
\* makes it smaller, so a later reading is never below an earlier one and
\* after 100 it stays 100; and a call of the view returns this value.
C39_ProgressMonotone ==
    /\ [](Progress \in 0..100)
    /\ [][Progress' >= Progress]_vars
    /\ [][Progress = 100 => Progress' = 100]_vars
    /\ [][lastOp' = "getVestingProgress" => ret' = Progress']_vars

\* A reading strictly between 0 and 100, taken after a release, of a
\* record that can still be revoked.
C39_Witness ==
    /\ lastOp = "getVestingProgress"
    /\ ret > 0
    /\ ret < 100
    /\ lockupInfo.releasedAmount > 0
    /\ lockupInfo.revocable
    /\ ~lockupInfo.revoked

====
